---- MODULE Spec2Model ----
(***************************************************************************)
(* A TLA+ model of the data-collection pipeline of insight_compass:        *)
(*   - the Telegram account pool (db/repositories/                         *)
(*     telegram_account_repository.py),                                    *)
(*   - the process-post unit and the transactional outbox with its         *)
(*     publisher and cleanup (tasks/data_collection_tasks.py,              *)
(*     tasks/outbox_tasks.py),                                             *)
(*   - the comment-collection unit and the collector's comment stream      *)
(*     (tasks/data_collection_tasks.py,                                    *)
(*     services/collectors/telegram_collector.py),                         *)
(*   - the analysis unit and the analysis request                          *)
(*     (tasks/ai_analysis_tasks.py, services/analytics_service.py),        *)
(*   - the dispatch of post collection with its retries                    *)
(*     (services/data_collection_service.py,                               *)
(*     tasks/data_collection_tasks.py).                                    *)
(*                                                                         *)
(* Every await on the database or on the provider is a point where other   *)
(* workers may run, so a unit is split into one action per transaction or  *)
(* provider call.  Each component has its own next-state relation and      *)
(* specification over the same variables.                                  *)
(***************************************************************************)
EXTENDS Integers, Sequences, FiniteSets, TLC

(***************************************************************************)
(* Bounds of the model.                                                    *)
(***************************************************************************)
NumAccounts == 2        \* rows of telegram_accounts
NumWorkers == 2         \* Celery worker processes running units concurrently
NumPublishers == 2      \* publisher runs that may overlap
MaxClock == 5           \* last value of the wall clock
NumChannels == 1        \* rows of channels
MaxTgId == 1            \* largest external (Telegram) post id a payload carries
MaxViews == 1           \* largest view count a payload carries
MaxPostRuns == 2        \* process-post units started in one behaviour
MaxOutbox == 4          \* outbox rows created in one behaviour
MaxSends == 2           \* accepted sends of one outbox row in one behaviour
OUTBOX_BATCH_SIZE == 2  \* settings.OUTBOX_BATCH_SIZE (100 in config.py), scaled down
MaxCid == 3             \* largest external id of a comment the provider issues
COMMENT_FETCH_LIMIT == 2 \* settings.COMMENT_FETCH_LIMIT (100 in config.py), scaled down
COMMENT_BATCH_SIZE == 2 \* settings.COMMENT_BATCH_SIZE, scaled down
MaxCommentRuns == 2     \* comment-collection units started in one behaviour
NumRequests == 2        \* analysis requests of the API that may overlap
MaxPostId == 2          \* largest post id an analysis request or task names
MaxAnalysisTasks == 3   \* analysis tasks sent in one behaviour
TASK_DEFAULT_RETRIES == 1 \* settings.TASK_DEFAULT_RETRIES (3 in config.py), scaled down
NumProviderPosts == 3   \* posts the provider holds for the channel
MaxDay == 3             \* days the posts are dated on, and today
MaxLimit == 2           \* largest limit of a dispatch request
MaxDispatchRequests == 1 \* dispatch requests handled in one behaviour
POST_FETCH_LIMIT == 2   \* settings.POST_FETCH_LIMIT (50 in config.py), scaled down
CELERY_MAX_RETRIES == 1 \* settings.CELERY_MAX_RETRIES, scaled down
CELERY_RETRY_DELAY == 1 \* settings.CELERY_RETRY_DELAY in seconds, scaled down
FLOOD_MARGIN == 1       \* the 5 seconds added to e.seconds, scaled down
MaxFloodWait == 2       \* longest wait in seconds a FloodWaitError asks for
MaxCollectorUnits == 2  \* callers of the collector started in one behaviour

NULL == 0               \* SQL NULL / Python None of an Optional[int] column
                        \* (every Telegram id and every primary key is >= 1)

Accounts == 1..NumAccounts
Workers == 1..NumWorkers
Publishers == 1..NumPublishers
Channels == 1..NumChannels
OutboxIds == 1..MaxOutbox
CommentIds == 1..MaxCid

\* A raw post that RawPostModel.model_validate accepts: the external id and
\* one of the mutable counters.
Payloads == [telegram_id : 1..MaxTgId, views : 0..MaxViews]

AnalyzeTask == "insight_compass.tasks.analyze_single_post"
CommentsTask == "insight_compass.tasks.collect_comments_for_post"

(***************************************************************************)
(* State.                                                                  *)
(***************************************************************************)
VARIABLES
    \* ---- account pool -------------------------------------------------
    accounts,       \* telegram_accounts: id -> [is_active, is_banned, last_used_at]
    accLock,        \* row lock of an account row: the worker holding it, or NULL
    now,            \* the wall clock read by datetime.now()
    apc,            \* worker -> "idle" | "selected" | "working" | "refused"
    acct,           \* worker -> the account it selected / works with, or NULL
    marked,         \* history: the accounts a mark_as_banned call committed for
    rotation,       \* history: the accounts the last get_account_for_work calls
                    \*   returned, one call after the other, since the pool
                    \*   last changed otherwise (the last NumAccounts of them)
    \* ---- posts, analysis artifacts, outbox ------------------------------
    posts,          \* posts: set of [id, channel_id, telegram_id, views]
    post_analysis,  \* post_analysis: set of [id, post_id]
    obLog,          \* every outbox row ever committed, by id: [task_name, post_id]
    outbox,         \* outbox_tasks: the ids of the rows now in the table
    agedUpTo,       \* rows with id <= agedUpTo have created_at < now - threshold
    handed,         \* outbox id -> times app.send_task accepted its task
    ppc,            \* process-post unit of a worker: "idle" | "existing" | "new" |
                    \*   "flushed"
    ppay,           \* its validated payload
    pchan,          \* its db_channel_id
    pfound,         \* the id of the existing post its SELECT found, or NULL
    procDone,       \* history: <<channel, payload>> -> units that finished
    rejected,       \* history: units that dropped a malformed payload
    pretries,       \* history: units that ended in an exception and self.retry
    pubpc,          \* publisher run: "idle" | "sending"
    pubPending,     \* rows it selected (and locked) and has not tried to send yet
    pubFailed,      \* rows it selected whose send raised
    pubPublished,   \* published_ids
    \* ---- analysis unit and request_analysis -----------------------------
    aqueue,         \* analysis tasks in the broker: [post_id, retries] -> how many
    asent,          \* analysis tasks sent so far (requests and outbox dispatches)
    anpc,           \* analysis unit of a worker: "idle" | "checked" | "analyzed"
    anpost,         \* its post_id
    anretries,      \* its self.request.retries
    aout,           \* how its last run ended: "none" | "exists" | "missing" |
                    \*   "invalid" | "saved" | "duplicate" | "retry" | "failed"
    rqpc,           \* trigger_post_analysis of a request: "idle" | "checked"
    rqpost,         \* the post_id of its last call, or NULL
    rqres,          \* its last answer: "none" | "404" | "409" | "202"
    \* ---- dispatch of post collection for one channel --------------------
    collection_is_active,   \* channels.collection_is_active
    provPosts,      \* the posts the provider holds: external id -> day of created_at
    dqueue,         \* dispatch messages in the broker: [kw, retries, eta] with the
                    \*   history fields cause (the rate limit that scheduled it)
                    \*   and req (the request it stems from)
    dres,           \* the last dispatch request and its answer
    dpc,            \* the dispatch unit: "idle" | "provider" | "streaming"
    dreq,           \* history: the request its message stems from
    dkw,            \* its kwargs
    dretries,       \* its self.request.retries
    dstream,        \* what iter_posts has still to yield
    demitted,       \* history: the posts it sent a process-post unit for
    dout,           \* how it ended: "none" | "inactive" | "completed" | "retry" |
                    \*   "failure"
    dstop,          \* history: why its loop ended: "none" | "exhausted" |
                    \*   "lower_bound" | "cut" | "no_access" | "raised"
    dflood,         \* history: the seconds of the rate limit the provider
                    \*   signalled during it, 0 when none
    dcause,         \* history: the rate limit whose retry it is
    dstartAt,       \* history: when it started
    dexecs,         \* history: executions of the dispatch sent by the last request
    drequests,      \* history: dispatch requests handled so far
    \* ---- comments of one stored post ------------------------------------
    provider,       \* external ids of the comments the provider holds for the post
    provMax,        \* largest comment id the provider has issued so far
    comments,       \* comments: external ids of the rows stored for the post
    last_comment_telegram_id,       \* posts.last_comment_telegram_id, or NULL
    cpc,            \* comment unit of a worker: "idle" | "loaded" | "stream" | "final"
    force_full_rescan,              \* its argument
    last_known_comment_id,          \* its local of that name
    latest_comment_id_in_stream,    \* its local of that name
    stream,         \* what its collector generator has still to yield, newest first
    batch,          \* its local of that name
    total_comments_processed,       \* its local of that name
    outcome,        \* how its last run ended: "none" | "completed" | "failed" | "integrity"
    cruns,          \* comment-collection runs started so far
    startHwm,       \* history: the post's high-water mark when the run started
    solo,           \* history: no other run of the post overlapped this run
    yielded,        \* history: the external ids the run's fetch yielded
    startEmpty,     \* history: the post had no stored comment when the run fetched
    fresh,          \* history: a run completed, and since then no run started and
                    \*   the provider got no new comment
    repeat,         \* history: the run started when fresh, and since its start no
                    \*   other run started and the provider got no new comment
    noNew,          \* history: the provider got no new comment since the run's fetch
    \* ---- collector and its callers ---------------------------------------
    session_account, \* the account row whose session string is
                    \*   settings.TELEGRAM_SESSION_STRING
    colpc,          \* caller of a worker: "idle" | "open" | "ready" | "stream"
    colunit,        \* which caller it is, "none" when idle
    colpost,        \* the post id it was started for, or NULL
    colcalls,       \* provider calls it has made so far
    colres,         \* history: how the worker's last caller ended
    colstarted,     \* history: callers started so far
    \* ---- the channel row -------------------------------------------------
    channel_exists, \* the row of the channel is in table channels
    patched_is_active \* history: the is_active of the last PATCH /channels/{id}
                    \*   that was answered 200, TRUE before the first

accVars == <<accounts, accLock, now, apc, acct, marked, rotation>>
postVars == <<posts, post_analysis, ppc, ppay, pchan, pfound, procDone, rejected,
              pretries>>
outboxVars == <<obLog, outbox, agedUpTo, handed>>
pubVars == <<pubpc, pubPending, pubFailed, pubPublished>>
dispatchVars == <<collection_is_active, provPosts, dqueue, dres, dpc, dreq, dkw,
                  dretries, dstream, demitted, dout, dstop, dflood, dcause,
                  dstartAt, dexecs, drequests>>
analysisVars == <<aqueue, asent, anpc, anpost, anretries, aout, rqpc, rqpost, rqres>>
commentVars == <<provider, provMax, comments, last_comment_telegram_id, cpc,
                 force_full_rescan, last_known_comment_id,
                 latest_comment_id_in_stream, stream, batch,
                 total_comments_processed, outcome, cruns,
                 startHwm, solo, yielded, startEmpty, fresh, repeat, noNew>>

collectorVars == <<session_account, colpc, colunit, colpost, colcalls, colres,
                   colstarted>>

channelVars == <<channel_exists, patched_is_active>>

vars == <<accVars, postVars, outboxVars, pubVars, commentVars, analysisVars,
          dispatchVars, collectorVars, channelVars>>
(***************************************************************************)
(* Account pool: TelegramAccountRepository.                                *)
(***************************************************************************)

\* WHERE is_active == True AND is_banned == False
C6_Mutant_Eligible(a) == accounts[a].is_active
Eligible(a) == accounts[a].is_active /\ ~accounts[a].is_banned

\* The rows the SELECT ... FOR UPDATE SKIP LOCKED can see: eligible rows that
\* no other transaction has locked.
C4_Mutant_Selectable == {a \in Accounts : Eligible(a)}
Selectable == {a \in Accounts : Eligible(a) /\ accLock[a] = NULL}

\* ORDER BY last_used_at ASC LIMIT 1 (a tie is broken either way).
C28_Mutant_LeastRecentlyUsed(S) == S
LeastRecentlyUsed(S) ==
    {a \in S : \A b \in S : accounts[a].last_used_at <= accounts[b].last_used_at}

\* Another call of get_account_for_work is between its SELECT and its commit.
OtherSelecting(w) == \E v \in Workers \ {w} : apc[v] = "selected"

\* The last n elements of a sequence.
LastN(seq, n) == IF Len(seq) <= n THEN seq ELSE SubSeq(seq, Len(seq) - n + 1, Len(seq))

\* get_account_for_work, lines 41 and 49: the SELECT found no row (none is
\* eligible, or every eligible row is locked by another call and skipped):
\* scalar_one_or_none gives None and the call returns None.
AcquireNone(w) ==
    /\ apc[w] = "idle"
    /\ now < MaxClock
    /\ Selectable = {}
    /\ apc' = [apc EXCEPT ![w] = "refused"]
    /\ UNCHANGED <<accounts, accLock, now, acct, marked, rotation, postVars, outboxVars, pubVars, commentVars, analysisVars, dispatchVars, collectorVars, channelVars>>

\* The caller that was given None ends without an account.
EndWithoutAccount(w) ==
    /\ apc[w] = "refused"
    /\ apc' = [apc EXCEPT ![w] = "idle"]
    /\ UNCHANGED <<accounts, accLock, now, acct, marked, rotation, postVars, outboxVars, pubVars, commentVars, analysisVars, dispatchVars, collectorVars, channelVars>>

\* get_account_for_work, the SELECT: the row is locked until the commit.
AcquireSelect(w) ==
    /\ apc[w] = "idle"
    /\ now < MaxClock
    /\ \E a \in LeastRecentlyUsed(Selectable) :
          /\ accLock' = [accLock EXCEPT ![a] = w]
          /\ acct' = [acct EXCEPT ![w] = a]
    /\ apc' = [apc EXCEPT ![w] = "selected"]
    /\ rotation' = IF OtherSelecting(w) THEN << >> ELSE rotation
    /\ UNCHANGED <<accounts, now, marked, postVars, outboxVars, pubVars, commentVars, analysisVars, dispatchVars, collectorVars, channelVars>>

\* get_account_for_work, last_used_at = now(); commit; return account.
AcquireCommit(w) ==
    /\ apc[w] = "selected"
    /\ now' = now + 1
    /\ accounts' = [accounts EXCEPT ![acct[w]].last_used_at = now']
    /\ accLock' = [accLock EXCEPT ![acct[w]] = NULL]
    /\ apc' = [apc EXCEPT ![w] = "working"]
    /\ rotation' = IF OtherSelecting(w) THEN << >>
                   ELSE LastN(Append(rotation, acct[w]), NumAccounts)
    /\ UNCHANGED <<acct, marked, postVars, outboxVars, pubVars, commentVars, analysisVars, dispatchVars, collectorVars, channelVars>>

\* The unit of work that used the account ends (get_service_provider exits).
ReleaseAccount(w) ==
    /\ apc[w] = "working"
    /\ apc' = [apc EXCEPT ![w] = "idle"]
    /\ acct' = [acct EXCEPT ![w] = NULL]
    /\ UNCHANGED <<accounts, accLock, now, marked, rotation, postVars, outboxVars, pubVars, commentVars, analysisVars, dispatchVars, collectorVars, channelVars>>

\* mark_as_banned, line 56: .values(is_banned=True, is_active=False).
C21_Mutant_BannedRow(row) == [row EXCEPT !.is_active = FALSE]
BannedRow(row) == [row EXCEPT !.is_banned = TRUE, !.is_active = FALSE]

\* mark_as_banned(account_id), called by the collector of worker w for its own
\* account when the provider reports it deactivated.  The UPDATE waits for a
\* row lock held by a selecting transaction.
MarkAsBanned(w) ==
    /\ apc[w] = "working"
    /\ accLock[acct[w]] = NULL
    /\ accounts' = [accounts EXCEPT ![acct[w]] = BannedRow(@)]
    /\ marked' = marked \cup {acct[w]}
    /\ rotation' = << >>
    /\ UNCHANGED <<accLock, now, apc, acct, postVars, outboxVars, pubVars, commentVars, analysisVars, dispatchVars, collectorVars, channelVars>>

\* The administrator's switch is_active ("manual" in the column's comment).
AdminSetActive(a, flag) ==
    /\ accLock[a] = NULL
    /\ accounts[a].is_active # flag
    /\ accounts' = [accounts EXCEPT ![a].is_active = flag]
    /\ rotation' = << >>
    /\ UNCHANGED <<accLock, now, apc, acct, marked, postVars, outboxVars, pubVars, commentVars, analysisVars, dispatchVars, collectorVars, channelVars>>

(***************************************************************************)
(* Process-post unit: task_process_raw_post.                               *)
(***************************************************************************)

\* select(Post).where(channel_id == c, telegram_id == t); the same rows are
\* what the unique constraint uq_post_channel_telegram looks at.
C1_Mutant_PostsWithKey(c, t) == {}
PostsWithKey(c, t) == {p \in posts : p.channel_id = c /\ p.telegram_id = t}

PostIds == {p.id : p \in posts}

\* The autoincrement primary key of posts.
NextPostId == Cardinality(posts) + 1

\* Units started so far: finished ones, failed ones and those in flight.
RECURSIVE SumDone(_)
SumDone(S) ==
    IF S = {} THEN 0
    ELSE LET k == CHOOSE x \in S : TRUE IN procDone[k] + SumDone(S \ {k})

PostRunsStarted ==
    SumDone(DOMAIN procDone) + rejected + pretries
        + Cardinality({w \in Workers : ppc[w] # "idle"})

\* The locals of a unit that is not running.
NoPayload == [telegram_id |-> 1, views |-> 0]

\* The unit of worker w returns: its locals are gone.
PostReturn(w) ==
    /\ ppc' = [ppc EXCEPT ![w] = "idle"]
    /\ ppay' = [ppay EXCEPT ![w] = NoPayload]
    /\ pchan' = [pchan EXCEPT ![w] = 1]
    /\ pfound' = [pfound EXCEPT ![w] = NULL]

\* db.add(OutboxTask(...)) ... commit: the rows get the next ids.
OutboxAppend(rows) == obLog \o rows

NewOutboxIds(rows) == (Len(obLog) + 1)..(Len(obLog) + Len(rows))

\* Lines 123-129: a payload RawPostModel rejects is logged and dropped.
PostRejected(w) ==
    /\ ppc[w] = "idle"
    /\ PostRunsStarted < MaxPostRuns
    /\ rejected' = rejected + 1
    /\ UNCHANGED <<posts, post_analysis, ppc, ppay, pchan, pfound, procDone, pretries>>
    /\ UNCHANGED <<accVars, outboxVars, pubVars, commentVars, analysisVars, dispatchVars, collectorVars, channelVars>>

\* Lines 132-134: the SELECT of the existing post.
PostSelect(w, c, pl) ==
    /\ ppc[w] = "idle"
    /\ PostRunsStarted < MaxPostRuns
    /\ LET found == PostsWithKey(c, pl.telegram_id) IN
          IF found # {}
          THEN /\ ppc' = [ppc EXCEPT ![w] = "existing"]
               /\ pfound' = [pfound EXCEPT ![w] = (CHOOSE p \in found : TRUE).id]
          ELSE /\ ppc' = [ppc EXCEPT ![w] = "new"]
               /\ pfound' = [pfound EXCEPT ![w] = NULL]
    /\ ppay' = [ppay EXCEPT ![w] = pl]
    /\ pchan' = [pchan EXCEPT ![w] = c]
    /\ UNCHANGED <<posts, post_analysis, procDone, rejected, pretries>>
    /\ UNCHANGED <<accVars, outboxVars, pubVars, commentVars, analysisVars, dispatchVars, collectorVars, channelVars>>

\* The posts that have an analysis artifact (the rows of post_analysis, by
\* their post_id).
analyses == {a.post_id : a \in post_analysis}

\* The id the sequence of post_analysis gives the next row.
NextAnalysisId == Cardinality(post_analysis) + 1

\* Lines 143-146: the outbox rows the update branch adds.
C29_Mutant_UpdateOutboxRows(pid) ==
    <<[task_name |-> AnalyzeTask, post_id |-> pid]>>
UpdateOutboxRows(pid) ==
    IF pid \notin analyses
    THEN <<[task_name |-> AnalyzeTask, post_id |-> pid]>>
    ELSE << >>

\* Lines 136-147: the post exists: refresh the mutable fields and, with no
\* analysis artifact yet, add an analysis outbox row; one commit.
PostUpdateCommit(w) ==
    /\ ppc[w] = "existing"
    /\ LET rows == UpdateOutboxRows(pfound[w]) IN
          /\ Len(obLog) + Len(rows) <= MaxOutbox
          /\ obLog' = OutboxAppend(rows)
          /\ outbox' = outbox \cup NewOutboxIds(rows)
    /\ posts' = {IF p.id = pfound[w] THEN [p EXCEPT !.views = ppay[w].views] ELSE p
                 : p \in posts}
    /\ procDone' = [procDone EXCEPT ![<<pchan[w], ppay[w]>>] = @ + 1]
    /\ PostReturn(w)
    /\ UNCHANGED <<post_analysis, rejected, pretries, agedUpTo, handed>>
    /\ UNCHANGED <<accVars, pubVars, commentVars, analysisVars, dispatchVars, collectorVars, channelVars>>

\* Lines 161-166: the outbox rows written with a new post; their post_id is
\* the id the flush gave the post of the same transaction.
C34_Mutant_NewPostOutboxRows(pid) ==
    <<[task_name |-> AnalyzeTask, post_id |-> pid + 1],
      [task_name |-> CommentsTask, post_id |-> pid + 1]>>
NewPostOutboxRows(pid) ==
    <<[task_name |-> AnalyzeTask, post_id |-> pid],
      [task_name |-> CommentsTask, post_id |-> pid]>>

\* Line 172-173: the handler of IntegrityError logs a warning and lets the
\* unit return; it calls no self.retry.
C14_Mutant_RetriesOnIntegrityError(n) == n + 1
RetriesOnIntegrityError(n) == n

\* Another transaction has inserted a post with the key of w's new post and
\* has not ended yet: the INSERT of w waits for it on the unique index.
InsertWaits(w) ==
    \E v \in Workers \ {w} :
        /\ ppc[v] = "flushed"
        /\ pchan[v] = pchan[w]
        /\ ppay[v].telegram_id = ppay[w].telegram_id

\* Lines 149-160 and 172-173: db.add(new_post) and flush: the INSERT of the
\* post runs inside the open transaction.  When a post with the same
\* (channel, external id) is committed, it raises IntegrityError
\* (uq_post_channel_telegram): the transaction is rolled back, nothing is
\* written, and the unit ends with a warning.
PostInsertFlush(w) ==
    /\ ppc[w] = "new"
    /\ ~InsertWaits(w)
    /\ IF PostsWithKey(pchan[w], ppay[w].telegram_id) # {}
       THEN /\ procDone' = [procDone EXCEPT ![<<pchan[w], ppay[w]>>] = @ + 1]
            /\ pretries' = RetriesOnIntegrityError(pretries)
            /\ PostReturn(w)
       ELSE /\ ppc' = [ppc EXCEPT ![w] = "flushed"]
            /\ UNCHANGED <<ppay, pchan, pfound, procDone, pretries>>
    /\ UNCHANGED <<posts, post_analysis, rejected>>
    /\ UNCHANGED <<accVars, outboxVars, pubVars, commentVars, analysisVars, dispatchVars, collectorVars, channelVars>>

\* The post row of a unit whose INSERT ran: new_post with its id.
FlushedPost(w) ==
    [id |-> NextPostId, channel_id |-> pchan[w],
     telegram_id |-> ppay[w].telegram_id, views |-> ppay[w].views]

\* Lines 163-168: add the two outbox rows and commit: the post and both rows
\* become visible together.
PostInsertCommit(w) ==
    /\ ppc[w] = "flushed"
    /\ LET rows == NewPostOutboxRows(NextPostId) IN
          /\ Len(obLog) + Len(rows) <= MaxOutbox
          /\ posts' = posts \cup {FlushedPost(w)}
          /\ obLog' = OutboxAppend(rows)
          /\ outbox' = outbox \cup NewOutboxIds(rows)
    /\ procDone' = [procDone EXCEPT ![<<pchan[w], ppay[w]>>] = @ + 1]
    /\ PostReturn(w)
    /\ UNCHANGED <<post_analysis, rejected, pretries, agedUpTo, handed>>
    /\ UNCHANGED <<accVars, pubVars, commentVars, analysisVars, dispatchVars, collectorVars, channelVars>>

\* db/session.py lines 41-44: the rollback of the session undoes what the
\* transaction of the unit did, the flushed INSERT of the post included.
C13_Mutant_PostsAfterRollback(w) ==
    IF ppc[w] = "flushed" THEN posts \cup {FlushedPost(w)} ELSE posts
PostsAfterRollback(w) == posts

\* Lines 174-176: any other exception before the commit rolls the
\* transaction back and calls self.retry; the unit is run again later.
PostAbort(w) ==
    /\ ppc[w] # "idle"
    /\ posts' = PostsAfterRollback(w)
    /\ pretries' = pretries + 1
    /\ PostReturn(w)
    /\ UNCHANGED <<post_analysis, procDone, rejected>>
    /\ UNCHANGED <<accVars, outboxVars, pubVars, commentVars, analysisVars, dispatchVars, collectorVars, channelVars>>

(***************************************************************************)
(* Analysis unit, as far as the outbox needs it: a dispatched analysis     *)
(* task stores the artifact of its post once (task_analyze_single_post;    *)
(* PostAnalysis.post_id is unique).                                        *)
(***************************************************************************)
AnalysisSaved(r) ==
    /\ r \in 1..Len(obLog)
    /\ handed[r] > 0
    /\ obLog[r].task_name = AnalyzeTask
    /\ obLog[r].post_id \in PostIds
    /\ obLog[r].post_id \notin analyses
    /\ post_analysis' = post_analysis \cup
          {[id |-> NextAnalysisId, post_id |-> obLog[r].post_id]}
    /\ UNCHANGED <<posts, ppc, ppay, pchan, pfound, procDone, rejected, pretries>>
    /\ UNCHANGED <<accVars, outboxVars, pubVars, commentVars, analysisVars, dispatchVars, collectorVars, channelVars>>

(***************************************************************************)
(* Outbox publisher and cleanup: publish_outbox_tasks,                     *)
(* cleanup_old_outbox_tasks.                                               *)
(***************************************************************************)

\* The rows one publisher transaction has locked.
HeldBy(p) == pubPending[p] \cup pubFailed[p] \cup pubPublished[p]

\* Line 47: with_for_update(skip_locked=True): the rows some open publisher
\* transaction holds are passed over by every other SELECT.
C31_Mutant_Locked == {}
Locked == UNION {HeldBy(p) : p \in Publishers}

\* Lines 42-51: SELECT ... LIMIT OUTBOX_BATCH_SIZE FOR UPDATE SKIP LOCKED.
\* The statement has no ORDER BY: any OUTBOX_BATCH_SIZE of the unlocked rows
\* (all of them when there are fewer) may come back.  With no row the run
\* returns at once.
PubSelect(p, S) ==
    /\ pubpc[p] = "idle"
    /\ S # {}
    /\ S \subseteq outbox \ Locked
    /\ \/ Cardinality(S) = OUTBOX_BATCH_SIZE
       \/ /\ Cardinality(S) < OUTBOX_BATCH_SIZE
          /\ S = outbox \ Locked
    /\ pubpc' = [pubpc EXCEPT ![p] = "sending"]
    /\ pubPending' = [pubPending EXCEPT ![p] = S]
    /\ UNCHANGED <<pubFailed, pubPublished>>
    /\ UNCHANGED <<accVars, postVars, outboxVars, commentVars, analysisVars, dispatchVars, collectorVars, channelVars>>

\* Lines 58-59: the exception of a send is caught inside the loop and
\* logged; the loop goes on with the next row of the batch.
C30_Mutant_PendingAfterFailure(p, r) == {}
PendingAfterFailure(p, r) == pubPending[p] \ {r}

\* Lines 54-59: one iteration of the loop: app.send_task either accepts the
\* task (ok) and its id goes to published_ids, or raises and is logged.
PubSend(p, r, ok) ==
    /\ pubpc[p] = "sending"
    /\ r \in pubPending[p]
    /\ pubPending' = [pubPending EXCEPT
                         ![p] = IF ok THEN @ \ {r} ELSE PendingAfterFailure(p, r)]
    /\ IF ok
       THEN /\ handed[r] < MaxSends
            /\ handed' = [handed EXCEPT ![r] = @ + 1]
            /\ pubPublished' = [pubPublished EXCEPT ![p] = @ \cup {r}]
            /\ UNCHANGED pubFailed
       ELSE /\ pubFailed' = [pubFailed EXCEPT ![p] = @ \cup {r}]
            /\ UNCHANGED <<handed, pubPublished>>
    /\ UNCHANGED <<pubpc, obLog, outbox, agedUpTo>>
    /\ UNCHANGED <<accVars, postVars, commentVars, analysisVars, dispatchVars, collectorVars, channelVars>>

\* Line 62: DELETE ... WHERE id IN (published_ids).
C2_Mutant_DeletedByCommit(p) == pubPublished[p] \cup pubFailed[p]
DeletedByCommit(p) == pubPublished[p]

\* Lines 61-64: after the loop, delete the published rows and commit; the
\* commit (or the exit of the session block) releases every lock of the run.
C3_Mutant_PubCommit(p) ==
    /\ pubpc[p] = "sending"
    /\ pubPending[p] = {}
    /\ outbox' = outbox \ DeletedByCommit(p)
    /\ pubpc' = [pubpc EXCEPT ![p] = "idle"]
    /\ pubPublished' = [pubPublished EXCEPT ![p] = {}]
    /\ UNCHANGED <<pubPending, pubFailed, obLog, agedUpTo, handed>>
    /\ UNCHANGED <<accVars, postVars, commentVars, analysisVars, dispatchVars, collectorVars, channelVars>>
PubCommit(p) ==
    /\ pubpc[p] = "sending"
    /\ pubPending[p] = {}
    /\ outbox' = outbox \ DeletedByCommit(p)
    /\ pubpc' = [pubpc EXCEPT ![p] = "idle"]
    /\ pubFailed' = [pubFailed EXCEPT ![p] = {}]
    /\ pubPublished' = [pubPublished EXCEPT ![p] = {}]
    /\ UNCHANGED <<pubPending, obLog, agedUpTo, handed>>
    /\ UNCHANGED <<accVars, postVars, commentVars, analysisVars, dispatchVars, collectorVars, channelVars>>

\* Lines 66-74: the worker dies, or the DELETE / commit raises: the
\* transaction is rolled back, nothing is deleted, the locks are released and
\* the run is retried; what was sent stays sent.
PubCrash(p) ==
    /\ pubpc[p] = "sending"
    /\ pubpc' = [pubpc EXCEPT ![p] = "idle"]
    /\ pubPending' = [pubPending EXCEPT ![p] = {}]
    /\ pubFailed' = [pubFailed EXCEPT ![p] = {}]
    /\ pubPublished' = [pubPublished EXCEPT ![p] = {}]
    /\ UNCHANGED <<obLog, outbox, agedUpTo, handed>>
    /\ UNCHANGED <<accVars, postVars, commentVars, analysisVars, dispatchVars, collectorVars, channelVars>>

\* Time passes: OUTBOX_CLEANUP_THRESHOLD_DAYS go by, and every row written so
\* far is now older than the threshold.
Age ==
    /\ agedUpTo < Len(obLog)
    /\ agedUpTo' = Len(obLog)
    /\ UNCHANGED <<obLog, outbox, handed>>
    /\ UNCHANGED <<accVars, postVars, pubVars, commentVars, analysisVars, dispatchVars, collectorVars, channelVars>>

\* created_at < utcnow() - timedelta(days=OUTBOX_CLEANUP_THRESHOLD_DAYS)
OldRows == {r \in outbox : r <= agedUpTo}

\* Lines 87-93: DELETE of every old row, whatever its state, and commit.  The
\* DELETE waits for the row locks of running publishers.
CleanupOld ==
    /\ OldRows # {}
    /\ OldRows \cap Locked = {}
    /\ outbox' = outbox \ OldRows
    /\ UNCHANGED <<obLog, agedUpTo, handed>>
    /\ UNCHANGED <<accVars, postVars, pubVars, commentVars, analysisVars, dispatchVars, collectorVars, channelVars>>

\* A backlog in which the broker refuses the task of each of the first
\* OUTBOX_BATCH_SIZE rows on every attempt (app.send_task raises each time,
\* line 56) and accepts the task of every other row.
SendAccepted(r) == r > OUTBOX_BATCH_SIZE

\* Lines 54-59 on that backlog.
PubSendBacklog(p, r) == PubSend(p, r, SendAccepted(r))


(***************************************************************************)
(* Comment collection for one stored post: task_collect_comments_for_post, *)
(* _process_comments_batch, TelegramCollector.get_comments_for_post.       *)
(***************************************************************************)

\* The external ids held in a sequence of raw comments.
Ids(seq) == {seq[i] : i \in 1..Len(seq)}

Max(S) == CHOOSE x \in S : \A y \in S : y <= x

\* client.iter_messages returns the newest message first.
RECURSIVE NewestFirst(_)
NewestFirst(S) ==
    IF S = {} THEN << >> ELSE <<Max(S)>> \o NewestFirst(S \ {Max(S)})

\* kwargs['limit'] = COMMENT_FETCH_LIMIT
Limit(seq, n) == SubSeq(seq, 1, IF Len(seq) < n THEN Len(seq) ELSE n)

\* The elements of seq that are in keep, in the order of seq.
RECURSIVE Keep(_, _)
Keep(seq, keep) ==
    IF seq = << >> THEN << >>
    ELSE (IF Head(seq) \in keep THEN <<Head(seq)>> ELSE << >>) \o Keep(Tail(seq), keep)

\* Collector lines 163-167: the replies to the post, with min_id (exclusive)
\* only when last_known_comment_id is truthy, newest first, at most
\* COMMENT_FETCH_LIMIT of them.
ProviderAnswer(lk) ==
    Limit(NewestFirst({c \in provider : lk = NULL \/ c > lk}), COMMENT_FETCH_LIMIT)

OthersIdle(w) == \A v \in Workers \ {w} : cpc[v] = "idle"

\* Lines 220-224: what the first transaction of the unit leaves in the
\* database: with force_full_rescan every comment of the post is deleted and
\* the high-water mark is set to None, in one commit.
C9_Mutant_StoredAfterLoad(rescan) ==
    IF rescan THEN [comments |-> {}, hwm |-> last_comment_telegram_id]
    ELSE [comments |-> comments, hwm |-> last_comment_telegram_id]
StoredAfterLoad(rescan) ==
    IF rescan THEN [comments |-> {}, hwm |-> NULL]
    ELSE [comments |-> comments, hwm |-> last_comment_telegram_id]

\* Line 226: last_known_comment_id = post_obj.last_comment_telegram_id, which
\* line 223 has set to None in a rescan.
C10_Mutant_LastKnownAfterLoad(rescan) == last_comment_telegram_id
LastKnownAfterLoad(rescan) == IF rescan THEN NULL ELSE last_comment_telegram_id

\* The unit of worker w returns or raises: its locals are gone.  The history
\* keeps how it ended, its arguments and what it fetched.
CommentReturn(w, how) ==
    /\ outcome' = [outcome EXCEPT ![w] = how]
    /\ cpc' = [cpc EXCEPT ![w] = "idle"]
    /\ stream' = [stream EXCEPT ![w] = << >>]
    /\ batch' = [batch EXCEPT ![w] = << >>]
    /\ latest_comment_id_in_stream' = [latest_comment_id_in_stream EXCEPT ![w] = NULL]
    /\ total_comments_processed' = [total_comments_processed EXCEPT ![w] = 0]
    /\ startHwm' = [startHwm EXCEPT ![w] = NULL]
    /\ startEmpty' = [startEmpty EXCEPT ![w] = FALSE]
    /\ repeat' = [repeat EXCEPT ![w] = FALSE]
    /\ noNew' = [noNew EXCEPT ![w] = FALSE]
    /\ UNCHANGED <<force_full_rescan, last_known_comment_id, cruns, solo, yielded>>

\* Lines 214-229: the unit starts, loads the post, resets it when asked to,
\* and reads the high-water mark.
CommentLoad(w, rescan) ==
    /\ cpc[w] = "idle"
    /\ cruns < MaxCommentRuns
    /\ cruns' = cruns + 1
    /\ comments' = StoredAfterLoad(rescan).comments
    /\ last_comment_telegram_id' = StoredAfterLoad(rescan).hwm
    /\ force_full_rescan' = [force_full_rescan EXCEPT ![w] = rescan]
    /\ last_known_comment_id' =
          [last_known_comment_id EXCEPT ![w] = LastKnownAfterLoad(rescan)]
    /\ latest_comment_id_in_stream' =
          [latest_comment_id_in_stream EXCEPT ![w] = LastKnownAfterLoad(rescan)]
    /\ outcome' = [outcome EXCEPT ![w] = "none"]
    /\ cpc' = [cpc EXCEPT ![w] = "loaded"]
    /\ startHwm' = [startHwm EXCEPT ![w] = last_comment_telegram_id]
    /\ solo' = [v \in Workers |-> v = w /\ OthersIdle(w)]
    /\ yielded' = [yielded EXCEPT ![w] = {}]
    /\ startEmpty' = [startEmpty EXCEPT ![w] = StoredAfterLoad(rescan).comments = {}]
    /\ repeat' = [v \in Workers |-> v = w /\ fresh]
    /\ fresh' = FALSE
    /\ UNCHANGED <<provider, provMax, stream, batch, total_comments_processed, noNew>>
    /\ UNCHANGED <<accVars, postVars, outboxVars, pubVars, analysisVars, dispatchVars, collectorVars, channelVars>>

\* Lines 234-236 with collector lines 159-178: the generator asks the provider
\* once.  Every comment whose extraction fails is skipped (collector lines
\* 227-229), and an RPCError raised by get_entity or in the middle of the
\* iteration ends the stream without an error (collector lines 172-178): what
\* the unit gets is the provider's answer restricted to some set keep.
CommentFetch(w, keep) ==
    /\ cpc[w] = "loaded"
    /\ LET answer == ProviderAnswer(last_known_comment_id[w]) IN
          /\ keep \subseteq Ids(answer)
          /\ stream' = [stream EXCEPT ![w] = Keep(answer, keep)]
          /\ yielded' = [yielded EXCEPT ![w] = keep]
    /\ cpc' = [cpc EXCEPT ![w] = "stream"]
    /\ noNew' = [noNew EXCEPT ![w] = TRUE]
    /\ UNCHANGED <<provider, provMax, comments, last_comment_telegram_id,
                   force_full_rescan, last_known_comment_id,
                   latest_comment_id_in_stream, batch, total_comments_processed,
                   outcome, cruns, startHwm, solo, startEmpty, fresh, repeat>>
    /\ UNCHANGED <<accVars, postVars, outboxVars, pubVars, analysisVars, dispatchVars, collectorVars, channelVars>>

\* _process_comments_batch (lines 184-204) in a session of its own: the rows
\* of the batch are inserted and committed together; a row that breaks
\* uq_comment_post_telegram raises IntegrityError, the batch is rolled back
\* and the exception ends the run (lines 265-269).
BatchConflicts(b) == Ids(b) \cap comments # {}

\* Lines 237-244: one iteration of the loop over the stream.
CommentYield(w) ==
    /\ cpc[w] = "stream"
    /\ stream[w] # << >>
    /\ LET c == Head(stream[w])
           b == Append(batch[w], c) IN
          IF Len(b) >= COMMENT_BATCH_SIZE /\ BatchConflicts(b)
          THEN /\ CommentReturn(w, "integrity")
               /\ UNCHANGED comments
          ELSE /\ stream' = [stream EXCEPT ![w] = Tail(@)]
               /\ latest_comment_id_in_stream' =
                     [latest_comment_id_in_stream EXCEPT
                         ![w] = IF c > @ THEN c ELSE @]
               /\ IF Len(b) >= COMMENT_BATCH_SIZE
                  THEN /\ comments' = comments \cup Ids(b)
                       /\ total_comments_processed' =
                             [total_comments_processed EXCEPT ![w] = @ + Len(b)]
                       /\ batch' = [batch EXCEPT ![w] = << >>]
                  ELSE /\ batch' = [batch EXCEPT ![w] = b]
                       /\ UNCHANGED <<comments, total_comments_processed>>
               /\ UNCHANGED <<force_full_rescan, last_known_comment_id, outcome,
                              cpc, cruns, startHwm, solo, yielded, startEmpty,
                              repeat, noNew>>
    /\ UNCHANGED <<provider, provMax, last_comment_telegram_id, fresh>>
    /\ UNCHANGED <<accVars, postVars, outboxVars, pubVars, analysisVars, dispatchVars, collectorVars, channelVars>>

\* Lines 245-248: the stream has ended; the rest of the batch is stored.
CommentFlushLast(w) ==
    /\ cpc[w] = "stream"
    /\ stream[w] = << >>
    /\ IF batch[w] # << >> /\ BatchConflicts(batch[w])
       THEN /\ CommentReturn(w, "integrity")
            /\ UNCHANGED comments
       ELSE /\ comments' = comments \cup Ids(batch[w])
            /\ total_comments_processed' =
                  [total_comments_processed EXCEPT ![w] = @ + Len(batch[w])]
            /\ batch' = [batch EXCEPT ![w] = << >>]
            /\ cpc' = [cpc EXCEPT ![w] = "final"]
            /\ UNCHANGED <<force_full_rescan, last_known_comment_id,
                           latest_comment_id_in_stream, stream, outcome, cruns,
                           startHwm, solo, yielded, startEmpty, repeat, noNew>>
    /\ UNCHANGED <<provider, provMax, last_comment_telegram_id, fresh>>
    /\ UNCHANGED <<accVars, postVars, outboxVars, pubVars, analysisVars, dispatchVars, collectorVars, channelVars>>

\* Lines 258-260: the UPDATE writes the high-water mark only when the stream
\* showed an id and it differs from the one read at the start.
HwmAfterFinal(w) ==
    IF /\ latest_comment_id_in_stream[w] # NULL
       /\ latest_comment_id_in_stream[w] # last_known_comment_id[w]
    THEN latest_comment_id_in_stream[w]
    ELSE last_comment_telegram_id

\* Lines 256-261: the last transaction of the unit.
CommentFinal(w) ==
    /\ cpc[w] = "final"
    /\ last_comment_telegram_id' = HwmAfterFinal(w)
    /\ CommentReturn(w, "completed")
    /\ fresh' = (OthersIdle(w) /\ noNew[w])
    /\ UNCHANGED <<provider, provMax, comments>>
    /\ UNCHANGED <<accVars, postVars, outboxVars, pubVars, analysisVars, dispatchVars, collectorVars, channelVars>>

\* The run ends early: the worker process dies, the provider connection
\* breaks, a database call raises, or the read of post_obj on line 226 raises
\* after the commit of line 224 has expired the object.  What earlier
\* transactions of the run committed stays; lines 265-269 schedule a retry,
\* which is a new run.
CommentFail(w) ==
    /\ cpc[w] # "idle"
    /\ CommentReturn(w, IF cpc[w] = "loaded" THEN "failed_before_fetch" ELSE "failed")
    /\ UNCHANGED <<provider, provMax, comments, last_comment_telegram_id, fresh>>
    /\ UNCHANGED <<accVars, postVars, outboxVars, pubVars, analysisVars, dispatchVars, collectorVars, channelVars>>

\* Somebody writes a comment under the post: the provider gives it the next id.
ProviderAdd ==
    /\ provMax < MaxCid
    /\ provMax' = provMax + 1
    /\ provider' = provider \cup {provMax + 1}
    /\ fresh' = FALSE
    /\ repeat' = [v \in Workers |-> FALSE]
    /\ noNew' = [v \in Workers |-> FALSE]
    /\ UNCHANGED <<comments, last_comment_telegram_id, cpc, force_full_rescan,
                   last_known_comment_id, latest_comment_id_in_stream, stream,
                   batch, total_comments_processed, outcome, cruns, startHwm,
                   solo, yielded, startEmpty>>
    /\ UNCHANGED <<accVars, postVars, outboxVars, pubVars, analysisVars, dispatchVars, collectorVars, channelVars>>

\* A comment is deleted upstream.
ProviderDelete(c) ==
    /\ c \in provider
    /\ provider' = provider \ {c}
    /\ UNCHANGED <<provMax, comments, last_comment_telegram_id, cpc,
                   force_full_rescan, last_known_comment_id,
                   latest_comment_id_in_stream, stream, batch,
                   total_comments_processed, outcome, cruns, startHwm, solo,
                   yielded, startEmpty, fresh, repeat, noNew>>
    /\ UNCHANGED <<accVars, postVars, outboxVars, pubVars, analysisVars, dispatchVars, collectorVars, channelVars>>

(***************************************************************************)
(* Analysis unit (tasks/ai_analysis_tasks.py, task_analyze_single_post)    *)
(* and request_analysis (services/analytics_service.py,                    *)
(* trigger_post_analysis).  The unit works in two transactions with the    *)
(* LLM call between them; the request checks, then sends the task.         *)
(***************************************************************************)
Requests == 1..NumRequests
AnalysisPostIds == 1..MaxPostId
AnalysisTasks == [post_id : AnalysisPostIds, retries : 0..TASK_DEFAULT_RETRIES]

PostExists(pid) == \E p \in posts : p.id = pid

\* app.send_task / apply_async: one more message of the task in the broker.
Enqueue(q, t) == [q EXCEPT ![t] = @ + 1]

AnalysisReturn(w, how) ==
    /\ anpc' = [anpc EXCEPT ![w] = "idle"]
    /\ anpost' = [anpost EXCEPT ![w] = NULL]
    /\ anretries' = [anretries EXCEPT ![w] = 0]
    /\ aout' = [aout EXCEPT ![w] = how]

\* outbox_tasks.py line 56: the publisher hands the analysis task of an
\* outbox row to the broker (a row that stays in the table is handed over
\* again by the next run, so the same task may arrive more than once).
DispatchAnalysis(r) ==
    /\ asent < MaxAnalysisTasks
    /\ r \in outbox
    /\ obLog[r].task_name = AnalyzeTask
    /\ aqueue' = Enqueue(aqueue, [post_id |-> obLog[r].post_id, retries |-> 0])
    /\ asent' = asent + 1
    /\ UNCHANGED <<anpc, anpost, anretries, aout, rqpc, rqpost, rqres>>
    /\ UNCHANGED <<accVars, postVars, outboxVars, pubVars, commentVars, dispatchVars, collectorVars, channelVars>>

\* outbox_tasks.py lines 56-63 with no failure: the row is handed over and
\* deleted, so its task arrives once (here before any request has sent a
\* task of its own).
DispatchAnalysisOnce(r) ==
    /\ asent = 0
    /\ DispatchAnalysis(r)

\* analytics_service.py lines 58-60: select(PostAnalysis.id).where(
\* PostAnalysis.post_id == post_id).
C27_Mutant_ExistingAnalysis(pid) == {}
ExistingAnalysis(pid) == {a.id : a \in {b \in post_analysis : b.post_id = pid}}

\* analytics_service.py lines 52-62: the answer of the two checks, or "pass".
C12_Mutant_RequestCheckAnswer(pid) == "pass"
RequestCheckAnswer(pid) ==
    IF ~PostExists(pid) THEN "404"
    ELSE IF ExistingAnalysis(pid) # {} THEN "409"
    ELSE "pass"

\* Lines 52-62: load the post (404 when missing), look for its artifact
\* (409 when there is one).
RequestCheck(u, pid) ==
    /\ rqpc[u] = "idle"
    /\ LET answer == RequestCheckAnswer(pid) IN
         IF answer = "pass"
         THEN /\ rqpc' = [rqpc EXCEPT ![u] = "checked"]
              /\ rqres' = [rqres EXCEPT ![u] = "none"]
         ELSE /\ rqres' = [rqres EXCEPT ![u] = answer]
              /\ UNCHANGED rqpc
    /\ rqpost' = [rqpost EXCEPT ![u] = pid]
    /\ UNCHANGED <<aqueue, asent, anpc, anpost, anretries, aout>>
    /\ UNCHANGED <<accVars, postVars, outboxVars, pubVars, commentVars, dispatchVars, collectorVars, channelVars>>

\* Lines 65-70: send the task to the broker directly (no outbox row) and
\* answer that the analysis was accepted.
RequestSend(u) ==
    /\ rqpc[u] = "checked"
    /\ asent < MaxAnalysisTasks
    /\ aqueue' = Enqueue(aqueue, [post_id |-> rqpost[u], retries |-> 0])
    /\ asent' = asent + 1
    /\ rqpc' = [rqpc EXCEPT ![u] = "idle"]
    /\ rqres' = [rqres EXCEPT ![u] = "202"]
    /\ UNCHANGED <<anpc, anpost, anretries, aout, rqpost>>
    /\ UNCHANGED <<accVars, postVars, outboxVars, pubVars, commentVars, dispatchVars, collectorVars, channelVars>>

\* ai_analysis_tasks.py lines 55-80, first transaction: a worker takes a task
\* from the broker; the unit ends when the post has an artifact (59-62) or
\* does not exist (66-76), else it goes on to the LLM call.
AnalysisStart(w, t) ==
    /\ anpc[w] = "idle"
    /\ aqueue[t] > 0
    /\ aqueue' = [aqueue EXCEPT ![t] = @ - 1]
    /\ IF t.post_id \in analyses THEN AnalysisReturn(w, "exists")
       ELSE IF ~PostExists(t.post_id) THEN AnalysisReturn(w, "missing")
       ELSE /\ anpc' = [anpc EXCEPT ![w] = "checked"]
            /\ anpost' = [anpost EXCEPT ![w] = t.post_id]
            /\ anretries' = [anretries EXCEPT ![w] = t.retries]
            /\ aout' = [aout EXCEPT ![w] = "none"]
    /\ UNCHANGED <<asent, rqpc, rqpost, rqres>>
    /\ UNCHANGED <<accVars, postVars, outboxVars, pubVars, commentVars, dispatchVars, collectorVars, channelVars>>

\* Lines 85-98 and the decorator (27-38): the LLM call.  A valid result is
\* kept for the second transaction; an invalid one ends the unit; an error
\* of the API listed in autoretry_for sends the task again with one more
\* retry, until max_retries is reached.
AnalysisLLM(w, res) ==
    /\ anpc[w] = "checked"
    /\ CASE res = "valid" ->
              /\ anpc' = [anpc EXCEPT ![w] = "analyzed"]
              /\ UNCHANGED <<aqueue, anpost, anretries, aout>>
         [] res = "invalid" ->
              /\ AnalysisReturn(w, "invalid")
              /\ UNCHANGED aqueue
         [] res = "api_error" ->
              IF anretries[w] < TASK_DEFAULT_RETRIES
              THEN /\ aqueue' = Enqueue(aqueue, [post_id |-> anpost[w],
                                                  retries |-> anretries[w] + 1])
                   /\ AnalysisReturn(w, "retry")
              ELSE /\ AnalysisReturn(w, "failed")
                   /\ UNCHANGED aqueue
    /\ UNCHANGED <<asent, rqpc, rqpost, rqres>>
    /\ UNCHANGED <<accVars, postVars, outboxVars, pubVars, commentVars, dispatchVars, collectorVars, channelVars>>

\* models/ai_analysis.py line 22, unique=True on post_analysis.post_id: an
\* INSERT for a post that has a row raises IntegrityError.
C11_Mutant_UniqueViolation(pid) == FALSE
UniqueViolation(pid) ==
    \E a \in post_analysis : a.post_id = pid

\* Lines 116-119: except IntegrityError: the session is rolled back and a
\* warning is logged; the handler sends nothing and raises nothing, and the
\* decorator retries only the listed API errors, so the broker holds what
\* it held.
C33_Mutant_QueueAfterIntegrityError(w) ==
    Enqueue(aqueue, [post_id |-> anpost[w], retries |-> anretries[w]])
QueueAfterIntegrityError(w) == aqueue

\* Lines 100-120, second transaction: insert the artifact and commit; an
\* IntegrityError is rolled back and logged, and the unit ends normally.
AnalysisSave(w) ==
    /\ anpc[w] = "analyzed"
    /\ IF UniqueViolation(anpost[w])
       THEN /\ AnalysisReturn(w, "duplicate")
            /\ aqueue' = QueueAfterIntegrityError(w)
            /\ UNCHANGED post_analysis
       ELSE /\ post_analysis' = post_analysis \cup
                   {[id |-> NextAnalysisId, post_id |-> anpost[w]]}
            /\ AnalysisReturn(w, "saved")
            /\ UNCHANGED aqueue
    /\ UNCHANGED <<asent, rqpc, rqpost, rqres>>
    /\ UNCHANGED <<posts, ppc, ppay, pchan, pfound, procDone, rejected, pretries>>
    /\ UNCHANGED <<accVars, outboxVars, pubVars, commentVars, dispatchVars, collectorVars, channelVars>>

\* Any other exception in the unit (the decorator retries only the listed
\* API errors), or a crash of the worker: the open transaction is rolled
\* back and the task is not sent again.
AnalysisFail(w) ==
    /\ anpc[w] # "idle"
    /\ AnalysisReturn(w, "failed")
    /\ UNCHANGED <<aqueue, asent, rqpc, rqpost, rqres>>
    /\ UNCHANGED <<accVars, postVars, outboxVars, pubVars, commentVars, dispatchVars, collectorVars, channelVars>>

(***************************************************************************)
(* Dispatch of post collection: DataCollectionService.                     *)
(* trigger_posts_collection (services/data_collection_service.py), the     *)
(* dispatch unit task_collect_posts_for_channel                            *)
(* (tasks/data_collection_tasks.py) and TelegramCollector.iter_posts       *)
(* (services/collectors/telegram_collector.py), for one channel.           *)
(***************************************************************************)
ProviderPostIds == 1..NumProviderPosts
Days == 1..MaxDay
Modes == {"get_new", "historical", "initial"}

\* date.today(): no post is dated later.
Today == MaxDay

\* date.isoformat() and datetime.fromisoformat(s).date(): a date travels in
\* the kwargs as its ISO string; None stays None.
IsoNone == << >>
IsoFormat(d) == <<"iso", d>>
FromIsoFormat(s) == s[2]

DispatchRequests ==
    [mode : Modes, date_from : {NULL} \cup Days, date_to : {NULL} \cup Days,
     limit : 0..MaxLimit]

NoRequest == [mode |-> "initial", date_from |-> NULL, date_to |-> NULL, limit |-> NULL]

NoKwargs ==
    [limit |-> NULL, min_id |-> NULL, offset_date |-> IsoNone,
     historical_start_date |-> IsoNone]

\* Messages of one dispatch the broker may hold at a time: each execution
\* sends at most two.
MaxQueued == 2 * (CELERY_MAX_RETRIES + 1)

\* No rate limit.
NoFlood == [at |-> 0, seconds |-> 0]

RECURSIVE OldestFirst(_)
OldestFirst(S) ==
    IF S = {} THEN << >>
    ELSE LET m == CHOOSE x \in S : \A y \in S : x <= y IN
           <<m>> \o OldestFirst(S \ {m})

\* Service lines 83-84: the largest external id among the stored posts of the
\* channel, None when there is none.
C17_Mutant_LastKnownPostId(c) == NULL
LastKnownPostId(c) ==
    LET ids == {p.telegram_id : p \in {q \in posts : q.channel_id = c}} IN
      IF ids = {} THEN NULL ELSE Max(ids)

\* Service lines 64-73 and 79-116: the answer to a request and the kwargs of
\* the task it sends, for an active channel.
Prepared(req) ==
    LET base == [NoKwargs EXCEPT
                    !.limit = IF req.limit # NULL THEN req.limit ELSE POST_FETCH_LIMIT]
    IN CASE req.mode = "get_new" ->
              IF LastKnownPostId(1) = NULL
              THEN [answer |-> "400", kw |-> NoKwargs]
              ELSE [answer |-> "202",
                    kw |-> [base EXCEPT !.min_id = LastKnownPostId(1)]]
         [] req.mode = "historical" ->
              IF req.date_from = NULL
              THEN [answer |-> "400", kw |-> NoKwargs]
              ELSE [answer |-> "202",
                    kw |-> [base EXCEPT
                              !.offset_date =
                                  IsoFormat(IF req.date_to # NULL THEN req.date_to
                                            ELSE Today),
                              !.historical_start_date = IsoFormat(req.date_from)]]
         [] req.mode = "initial" ->
              [answer |-> "202", kw |-> base]

\* Service lines 59-123 with 183-190: check the channel, prepare the kwargs
\* for the mode, send the dispatch task.  (The model has one dispatch in the
\* broker or running at a time.)
DispatchRequest(req) ==
    /\ dpc = "idle"
    /\ dqueue = << >>
    /\ drequests < MaxDispatchRequests
    /\ drequests' = drequests + 1
    /\ IF ~channel_exists \/ ~collection_is_active
       THEN /\ dres' = [req |-> req,
                        answer |-> IF ~channel_exists THEN "404" ELSE "400"]
            /\ UNCHANGED <<dqueue, dexecs>>
       ELSE /\ dres' = [req |-> req, answer |-> Prepared(req).answer]
            /\ IF Prepared(req).answer = "202"
               THEN /\ dqueue' = <<[kw |-> Prepared(req).kw, retries |-> 0,
                                    eta |-> now, cause |-> NoFlood, req |-> req]>>
                    /\ dexecs' = 0
               ELSE UNCHANGED <<dqueue, dexecs>>
    /\ UNCHANGED <<collection_is_active, provPosts, dpc, dreq, dkw, dretries,
                   dstream, demitted, dout, dstop, dflood, dcause, dstartAt>>
    /\ UNCHANGED <<accVars, postVars, outboxVars, pubVars, commentVars, analysisVars, collectorVars, channelVars>>

\* PATCH /channels/{id}, ChannelService.update_channel_status: the channel
\* is loaded (404 when missing), "db_channel.is_active = is_active" sets an
\* attribute that is no column of Channel, so the commit writes nothing, and
\* the request is answered 200.  The column collection_is_active is as it was.
UpdateChannelStatus(flag) ==
    /\ channel_exists
    /\ patched_is_active # flag
    /\ patched_is_active' = flag
    /\ UNCHANGED channel_exists
    /\ UNCHANGED <<accVars, postVars, outboxVars, pubVars, commentVars, analysisVars, dispatchVars, collectorVars>>

\* The row of the channel is deleted in the database (no endpoint of the
\* application does it): ON DELETE CASCADE removes its posts and their
\* comments; post_analysis.post_id has no cascade, so the DELETE fails while
\* a post of the channel has an analysis.
ChannelDelete ==
    /\ channel_exists
    /\ post_analysis = {}
    /\ channel_exists' = FALSE
    /\ posts' = {}
    /\ comments' = {}
    /\ last_comment_telegram_id' = NULL
    /\ UNCHANGED patched_is_active
    /\ UNCHANGED <<post_analysis, ppc, ppay, pchan, pfound, procDone, rejected, pretries>>
    /\ UNCHANGED <<provider, provMax, cpc, force_full_rescan, last_known_comment_id,
                   latest_comment_id_in_stream, stream, batch,
                   total_comments_processed, outcome, cruns, startHwm, solo, yielded,
                   startEmpty, fresh, repeat, noNew>>
    /\ UNCHANGED <<accVars, outboxVars, pubVars, analysisVars, dispatchVars, collectorVars>>

\* The column collection_is_active is switched in the database; no code of
\* the application writes it (its server default is true).
ChannelSetActive(flag) ==
    /\ collection_is_active' = flag
    /\ UNCHANGED <<provPosts, dqueue, dres, dpc, dreq, dkw, dretries, dstream,
                   demitted, dout, dstop, dflood, dcause, dstartAt, dexecs, drequests>>
    /\ UNCHANGED <<accVars, postVars, outboxVars, pubVars, commentVars, analysisVars, collectorVars, channelVars>>

\* The unit ends: its locals are gone; the history keeps its arguments, what
\* it emitted and how it ended.
DispatchReturn(how, why) ==
    /\ dpc' = "idle"
    /\ dstream' = << >>
    /\ dretries' = 0
    /\ dout' = how
    /\ dstop' = why

\* Task lines 63-83: a worker takes a message whose eta has come; the unit
\* parses the dates and loads the channel; it returns when the channel is
\* missing or its collection is switched off.
DispatchStart(i) ==
    /\ dpc = "idle"
    /\ i \in 1..Len(dqueue)
    /\ dqueue[i].eta <= now
    /\ dqueue' = SubSeq(dqueue, 1, i - 1) \o SubSeq(dqueue, i + 1, Len(dqueue))
    /\ dexecs' = dexecs + 1
    /\ dreq' = dqueue[i].req
    /\ dkw' = dqueue[i].kw
    /\ dcause' = dqueue[i].cause
    /\ dstartAt' = now
    /\ demitted' = << >>
    /\ dflood' = 0
    /\ IF ~channel_exists \/ ~collection_is_active
       THEN DispatchReturn("inactive", "none")
       ELSE /\ dpc' = "provider"
            /\ dretries' = dqueue[i].retries
            /\ dout' = "none"
            /\ dstop' = "none"
            /\ UNCHANGED dstream
    /\ UNCHANGED <<collection_is_active, provPosts, dres, drequests>>
    /\ UNCHANGED <<accVars, postVars, outboxVars, pubVars, commentVars, analysisVars, collectorVars, channelVars>>

\* Collector lines 141-148: client.iter_messages(entity, limit, offset_date,
\* min_id + reverse).  With min_id the messages above it come oldest first;
\* otherwise the newest come first, and with offset_date only the messages
\* sent before that date: the date object stands for its midnight, so the
\* posts of the day offset_date itself are not among them.
ProviderPosts(kw) ==
    LET ids == {i \in ProviderPostIds :
                   /\ kw.min_id = NULL \/ i > kw.min_id
                   /\ kw.offset_date = IsoNone
                        \/ provPosts[i] < FromIsoFormat(kw.offset_date)}
        ordered == IF kw.min_id # NULL THEN OldestFirst(ids) ELSE NewestFirst(ids)
    IN IF kw.limit = NULL THEN ordered ELSE Limit(ordered, kw.limit)

\* Task.retry of Celery: the message of the re-execution, to be started
\* after countdown seconds.
Retried(countdown, cause) ==
    [kw |-> dkw, retries |-> dretries + 1, eta |-> now + countdown,
     cause |-> cause, req |-> dreq]

\* Task lines 97-109: what the handlers of the unit send when the provider
\* call raises.  self.retry sends the message and raises celery's Retry,
\* which is an Exception: the retry of an inner handler (97-102) is caught
\* by the outer handler (106-109), which calls self.retry once more with the
\* default delay.  With the retries used up self.retry re-raises the error
\* and sends nothing.
SentOnFailure(kind, n) ==
    LET cause == IF kind = "flood" THEN [at |-> now, seconds |-> n] ELSE NoFlood
        default == Retried(CELERY_RETRY_DELAY, cause) IN
      IF dretries + 1 > CELERY_MAX_RETRIES THEN << >>
      ELSE CASE kind = "flood" -> <<Retried(n + FLOOD_MARGIN, cause), default>>
             [] kind = "unavailable" -> <<default, default>>
             [] kind = "error" -> <<default>>

\* Task lines 87-88 with collector lines 128-139: the provider is opened and
\* the channel resolved.  ok: the stream starts.  no_access: get_entity
\* raised ValueError, TypeError or ChannelPrivateError, the generator ends
\* at once and the unit completes with nothing sent.  flood (FloodWaitError of n seconds), unavailable
\* (UserDeactivatedBanError, ConnectionError) and error (anything else)
\* reach the handlers of the unit.
DispatchOpen(ev, n) ==
    /\ dpc = "provider"
    /\ CASE ev = "ok" ->
              /\ dpc' = "streaming"
              /\ dstream' = ProviderPosts(dkw)
              /\ UNCHANGED <<dqueue, dretries, dout, dstop, dflood>>
         [] ev = "no_access" ->
              /\ DispatchReturn("completed", "no_access")
              /\ UNCHANGED <<dqueue, dflood>>
         [] ev \in {"flood", "unavailable", "error"} ->
              /\ dqueue' = dqueue \o SentOnFailure(ev, n)
              /\ dflood' = IF ev = "flood" THEN n ELSE 0
              /\ DispatchReturn(IF SentOnFailure(ev, n) = << >> THEN "failure"
                                ELSE "retry", "raised")
    /\ UNCHANGED <<collection_is_active, provPosts, dres, dreq, dkw, demitted,
                   dcause, dstartAt, dexecs, drequests>>
    /\ UNCHANGED <<accVars, postVars, outboxVars, pubVars, commentVars, analysisVars, collectorVars, channelVars>>

\* Task lines 88-95: the next post of the stream; the loop breaks at the
\* first post dated before historical_start_date, else a process-post unit
\* is sent for the post.
DispatchYield ==
    /\ dpc = "streaming"
    /\ dstream # << >>
    /\ IF /\ dkw.historical_start_date # IsoNone
          /\ provPosts[Head(dstream)] < FromIsoFormat(dkw.historical_start_date)
       THEN /\ DispatchReturn("completed", "lower_bound")
            /\ UNCHANGED demitted
       ELSE /\ demitted' = Append(demitted, Head(dstream))
            /\ dstream' = Tail(dstream)
            /\ UNCHANGED <<dpc, dretries, dout, dstop>>
    /\ UNCHANGED <<collection_is_active, provPosts, dqueue, dres, dreq, dkw,
                   dflood, dcause, dstartAt, dexecs, drequests>>
    /\ UNCHANGED <<accVars, postVars, outboxVars, pubVars, commentVars, analysisVars, collectorVars, channelVars>>

\* Collector lines 147-155: an RPCError raised while the messages are
\* iterated (FloodWaitError of n seconds is one; n = 0 stands for another
\* RPCError) is logged by the generator, which then ends: the loop of the
\* unit ends as if the stream were complete.
DispatchCut(n) ==
    /\ dpc = "streaming"
    /\ dflood' = n
    /\ DispatchReturn("completed", "cut")
    /\ UNCHANGED <<collection_is_active, provPosts, dqueue, dres, dreq, dkw,
                   demitted, dcause, dstartAt, dexecs, drequests>>
    /\ UNCHANGED <<accVars, postVars, outboxVars, pubVars, commentVars, analysisVars, collectorVars, channelVars>>

\* Task line 96: the stream is exhausted.
DispatchFinish ==
    /\ dpc = "streaming"
    /\ dstream = << >>
    /\ DispatchReturn("completed", "exhausted")
    /\ UNCHANGED <<collection_is_active, provPosts, dqueue, dres, dreq, dkw,
                   demitted, dflood, dcause, dstartAt, dexecs, drequests>>
    /\ UNCHANGED <<accVars, postVars, outboxVars, pubVars, commentVars, analysisVars, collectorVars, channelVars>>

\* A second passes.
Tick ==
    /\ now < MaxClock
    /\ now' = now + 1
    /\ UNCHANGED <<accounts, accLock, apc, acct, marked, rotation>>
    /\ UNCHANGED <<postVars, outboxVars, pubVars, commentVars, analysisVars, dispatchVars, collectorVars, channelVars>>
(***************************************************************************)
(* The collector and its callers: TelegramCollector                        *)
(* (services/collectors/telegram_collector.py), get_service_provider       *)
(* (core/dependencies.py), and the three units and the API request that    *)
(* call the collector's operations.                                        *)
(***************************************************************************)

\* The callers of get_service_provider that use the collector: the dispatch
\* unit (iter_posts), the comment unit (get_comments_for_post), the stats
\* unit (get_single_post_by_id) and POST /channels (get_channel_info).
CollectorUnits == {"dispatch", "comments", "stats", "add_channel"}

\* What the provider answers to a call.  The errors are telethon's
\* UserDeactivatedBanError, an UnauthorizedError (the session was revoked),
\* MsgIdInvalidError, ChannelPrivateError and any other RPCError; all of them
\* are subclasses of RPCError.
ProviderErrors ==
    {"deactivated", "unauthorized", "msg_id_invalid", "channel_private", "rpc_error"}

\* client.connect() with is_user_authorized(): authorized, not authorized,
\* the account is deactivated, or another error of the connection.
ConnectEvents == {"ok", "unauthorized", "deactivated", "rpc_error"}

\* The operation a caller invokes first on the collector it was given.
FirstOp(u) ==
    CASE u = "dispatch" -> "iter_posts.get_entity"
      [] u = "comments" -> "get_comments_for_post"
      [] u = "stats" -> "get_single_post_by_id"
      [] u = "add_channel" -> "get_channel_info"

\* The except clauses inside an operation: does one of them catch the error?
\* initialize catches UserDeactivatedBanError only to mark and re-raise;
\* the first try of iter_posts catches ValueError, TypeError and
\* ChannelPrivateError; every other try block ends with "except RPCError".
CaughtInside(op, ev) ==
    CASE op = "initialize" -> FALSE
      [] op = "iter_posts.get_entity" -> ev = "channel_private"
      [] OTHER -> TRUE

\* Does the error leave the operation (an exception the caller sees)?
Raised(op, ev) == ev # "ok" /\ ~CaughtInside(op, ev)

\* _mark_self_as_banned is called by initialize for an unauthorized or a
\* deactivated account, and by _banned_account_handler for a
\* UserDeactivatedBanError that leaves the body of an operation.
MarksBanned(op, ev) ==
    IF op = "initialize" THEN ev \in {"unauthorized", "deactivated"}
    ELSE Raised(op, ev) /\ ev = "deactivated"

\* What the caller gets from an operation that does not raise: a value, None,
\* the whole stream, a stream that ended early, or nothing at all.
Delivers(op, ev) ==
    CASE op \in {"get_channel_info", "get_single_post_by_id"} ->
             IF ev = "ok" THEN "value" ELSE "none"
      [] op = "iter_posts.get_entity" -> "empty"
      [] op \in {"iter_posts.iter_messages", "get_comments_for_post"} ->
             IF ev = "ok" THEN "full"
             ELSE IF ev \in {"channel_private", "msg_id_invalid"} THEN "empty"
             ELSE "cut"

\* How the caller ends after an operation that did not raise.  The dispatch
\* and the comment unit leave their loop and go on to their last lines; the
\* stats unit returns on None and updates the post otherwise; the API answers
\* 503 on None.
EndsOn(u, got) ==
    CASE u \in {"dispatch", "comments"} -> "completed"
      [] u = "stats" -> IF got = "value" THEN "completed" ELSE "returned"
      [] u = "add_channel" -> IF got = "value" THEN "created" ELSE "503"

\* The retry messages a unit schedules for an exception.  The handler inside
\* _run takes UserDeactivatedBanError and ConnectionError and calls
\* self.retry, which raises celery's Retry; the handler around asyncio.run
\* takes every Exception, Retry included, and calls self.retry again.  An
\* exception the inner handler does not name reaches the outer one only.
\* The API request schedules nothing, and neither does a caller that ends
\* without an exception.
RetriesFor(u, exc) ==
    IF u = "add_channel" \/ exc = "none" THEN 0
    ELSE IF exc \in {"UserDeactivatedBanError", "ConnectionError"} THEN 2
    ELSE 1

\* The exception the caller sees for an error that leaves an operation.
ExceptionOf(op, ev) ==
    IF op = "initialize" /\ ev = "unauthorized" THEN "ConnectionError"
    ELSE IF ev = "deactivated" THEN "UserDeactivatedBanError"
    ELSE "RPCError"

NoResult ==
    [unit |-> "none", op |-> "none", ev |-> "ok", exc |-> "none",
     outcome |-> "none", retries |-> 0, calls |-> 0, account |-> NULL,
     got |-> "none", post |-> NULL]

\* The caller ends: its collector is disconnected and the record of the run
\* is kept.
CollectorReturn(w, op, ev, exc, how, got, calls, a) ==
    /\ colpc' = [colpc EXCEPT ![w] = "idle"]
    /\ colunit' = [colunit EXCEPT ![w] = "none"]
    /\ colpost' = [colpost EXCEPT ![w] = NULL]
    /\ colcalls' = [colcalls EXCEPT ![w] = 0]
    /\ colres' = [colres EXCEPT ![w] =
                    [unit |-> colunit[w], op |-> op, ev |-> ev, exc |-> exc,
                     outcome |-> how, retries |-> RetriesFor(colunit[w], exc),
                     calls |-> calls, account |-> a, got |-> got,
                     post |-> colpost[w]]]

\* An exception reaches the caller: the units schedule their retry, the API
\* answers 500.
CollectorRaise(w, op, ev, exc, calls, a) ==
    CollectorReturn(w, op, ev, exc,
                    IF colunit[w] = "add_channel" THEN "500" ELSE "retry",
                    "none", calls, a)

\* The first lines of a caller, up to get_service_provider: the dispatch unit
\* loads its channel and returns when the row is missing or its collection is
\* off (lines 77-82); the comment unit and the stats unit load their post and
\* return when the post or its channel is missing (214-218, 284-288).
C26_Mutant_ParentMissing(u, pid) == FALSE
ParentMissing(u, pid) ==
    CASE u = "dispatch" -> ~channel_exists \/ ~collection_is_active
      [] u \in {"comments", "stats"} -> ~PostExists(pid)
      [] OTHER -> FALSE

\* The post id a caller is started for, None for the callers that take none.
PostArg(u, pid) == IF u \in {"comments", "stats"} THEN pid ELSE NULL

\* A caller starts: it returns when its parent row is missing, else it
\* reaches "async with get_service_provider()".
UnitStart(w, u, pid) ==
    /\ colpc[w] = "idle"
    /\ colstarted < MaxCollectorUnits
    /\ colstarted' = colstarted + 1
    /\ IF ParentMissing(u, pid)
       THEN /\ colres' = [colres EXCEPT ![w] =
                            [NoResult EXCEPT !.unit = u, !.post = PostArg(u, pid),
                                             !.outcome = "missing"]]
            /\ UNCHANGED <<colpc, colunit, colpost, colcalls>>
       ELSE /\ colpc' = [colpc EXCEPT ![w] = "open"]
            /\ colunit' = [colunit EXCEPT ![w] = u]
            /\ colpost' = [colpost EXCEPT ![w] = PostArg(u, pid)]
            /\ colcalls' = [colcalls EXCEPT ![w] = 0]
            /\ UNCHANGED colres
    /\ UNCHANGED session_account
    /\ UNCHANGED <<accVars, postVars, outboxVars, pubVars, commentVars, analysisVars, dispatchVars, channelVars>>

\* dependencies.py line 87 as it is written:
\* TelegramCollector(session_string=settings.TELEGRAM_SESSION_STRING) leaves
\* out account_db_id, which __init__ requires, so the call raises TypeError
\* before the try block of line 89; the caller's handlers take it.
GetServiceProvider(w) ==
    /\ colpc[w] = "open"
    /\ CollectorRaise(w, "__init__", "ok", "TypeError", 0, NULL)
    /\ UNCHANGED <<session_account, colstarted>>
    /\ UNCHANGED <<accVars, postVars, outboxVars, pubVars, commentVars, analysisVars, dispatchVars, channelVars>>

\* _mark_self_as_banned: mark_as_banned(self.account_db_id) and commit in a
\* session of its own.
MarkSelfAsBanned(a) ==
    /\ accLock[a] = NULL
    /\ accounts' = [accounts EXCEPT ![a] = BannedRow(@)]
    /\ marked' = marked \cup {a}
    /\ rotation' = << >>
    /\ UNCHANGED <<accLock, now, apc, acct>>

\* get_service_provider with the collector built from both arguments of its
\* constructor: the session string of the settings and the id of the account
\* row that holds it; then initialize() (lines 72-92) and the yield.  The
\* session comes from the settings: no row of the pool is selected, locked or
\* stamped.
CollectorInitialize(w, ev) ==
    /\ colpc[w] = "open"
    /\ IF ev = "ok"
       THEN /\ colpc' = [colpc EXCEPT ![w] = "ready"]
            /\ colcalls' = [colcalls EXCEPT ![w] = @ + 1]
            /\ UNCHANGED <<colunit, colpost, colres>>
       ELSE CollectorRaise(w, "initialize", ev, ExceptionOf("initialize", ev),
                           colcalls[w] + 1, session_account)
    /\ IF MarksBanned("initialize", ev)
       THEN MarkSelfAsBanned(session_account)
       ELSE UNCHANGED accVars
    /\ UNCHANGED <<session_account, colstarted>>
    /\ UNCHANGED <<postVars, outboxVars, pubVars, commentVars, analysisVars, dispatchVars, channelVars>>

\* data_collection_tasks.py lines 293-295: the stats unit returns when
\* get_single_post_by_id gave it nothing, and writes otherwise.
C36_Mutant_StatsWrites(u, got) == u = "stats"
StatsWrites(u, got) == u = "stats" /\ got = "value"

\* Lines 296-301: UPDATE posts SET views_count, forwards_count, reactions,
\* stats_last_updated_at WHERE id = post_id, and commit.  The model's views
\* stands for the three counters; a post that is gone matches no row.
PostsAfterStats(pid, v) ==
    {IF p.id = pid THEN [p EXCEPT !.views = v] ELSE p : p \in posts}

\* One operation of the collector, called by the unit that holds it, with the
\* provider's answer ev; iter_posts is two calls, get_entity and then the
\* iteration.  The answer "gone" is get_messages returning no Message for
\* the id (the post was deleted upstream; telegram_collector.py 186-187).
CollectorCall(w, ev) ==
    /\ colpc[w] \in {"ready", "stream"}
    /\ ev = "gone" => colunit[w] = "stats"
    /\ LET u == colunit[w]
           op == IF colpc[w] = "stream" THEN "iter_posts.iter_messages" ELSE FirstOp(u)
           calls == colcalls[w] + 1
       IN  /\ IF Raised(op, ev)
              THEN CollectorRaise(w, op, ev, ExceptionOf(op, ev), calls, session_account)
              ELSE IF op = "iter_posts.get_entity" /\ ev = "ok"
              THEN /\ colpc' = [colpc EXCEPT ![w] = "stream"]
                   /\ colcalls' = [colcalls EXCEPT ![w] = calls]
                   /\ UNCHANGED <<colunit, colpost, colres>>
              ELSE CollectorReturn(w, op, ev, "none", EndsOn(u, Delivers(op, ev)),
                                   Delivers(op, ev), calls, session_account)
           /\ IF MarksBanned(op, ev)
              THEN MarkSelfAsBanned(session_account)
              ELSE UNCHANGED accVars
    /\ IF StatsWrites(colunit[w], Delivers(FirstOp(colunit[w]), ev))
       THEN /\ \E v \in 0..MaxViews : posts' = PostsAfterStats(colpost[w], v)
            /\ UNCHANGED <<post_analysis, ppc, ppay, pchan, pfound, procDone,
                           rejected, pretries>>
       ELSE UNCHANGED postVars
    /\ UNCHANGED <<session_account, colstarted>>
    /\ UNCHANGED <<outboxVars, pubVars, commentVars, analysisVars, dispatchVars, channelVars>>

(***************************************************************************)
(* Initial state: the tables as the migrations and the seeding leave them  *)
(* (two usable accounts, one channel, no post, an empty outbox; for the    *)
(* comment component one stored post without comments), every worker idle. *)
(***************************************************************************)
InitAccounts ==
    /\ accounts = [a \in Accounts |->
                     [is_active |-> TRUE, is_banned |-> FALSE, last_used_at |-> 0]]
    /\ accLock = [a \in Accounts |-> NULL]
    /\ now = 0
    /\ apc = [w \in Workers |-> "idle"]
    /\ acct = [w \in Workers |-> NULL]
    /\ marked = {}
    /\ rotation = << >>

\* No caller of the collector has started; the session string of the settings
\* is the one of account row a.
InitCollector(a) ==
    /\ session_account = a
    /\ colpc = [w \in Workers |-> "idle"]
    /\ colunit = [w \in Workers |-> "none"]
    /\ colpost = [w \in Workers |-> NULL]
    /\ colcalls = [w \in Workers |-> 0]
    /\ colres = [w \in Workers |-> NoResult]
    /\ colstarted = 0

\* The channel is stored and nobody has changed its status.
InitChannelRow ==
    /\ channel_exists = TRUE
    /\ patched_is_active = TRUE

InitPipeline ==
    /\ posts = {}
    /\ post_analysis = {}
    /\ obLog = << >>
    /\ outbox = {}
    /\ agedUpTo = 0
    /\ handed = [r \in OutboxIds |-> 0]
    /\ ppc = [w \in Workers |-> "idle"]
    /\ ppay = [w \in Workers |-> NoPayload]
    /\ pchan = [w \in Workers |-> 1]
    /\ pfound = [w \in Workers |-> NULL]
    /\ procDone = [k \in Channels \X Payloads |-> 0]
    /\ rejected = 0
    /\ pretries = 0
    /\ pubpc = [p \in Publishers |-> "idle"]
    /\ pubPending = [p \in Publishers |-> {}]
    /\ pubFailed = [p \in Publishers |-> {}]
    /\ pubPublished = [p \in Publishers |-> {}]

\* The stored post after its first n comments were written under it and
\* collected (n = 0: a new post, None as high-water mark).
InitComments(n) ==
    /\ provider = 1..n
    /\ provMax = n
    /\ comments = 1..n
    /\ last_comment_telegram_id = n
    /\ cpc = [w \in Workers |-> "idle"]
    /\ force_full_rescan = [w \in Workers |-> FALSE]
    /\ last_known_comment_id = [w \in Workers |-> NULL]
    /\ latest_comment_id_in_stream = [w \in Workers |-> NULL]
    /\ stream = [w \in Workers |-> << >>]
    /\ batch = [w \in Workers |-> << >>]
    /\ total_comments_processed = [w \in Workers |-> 0]
    /\ outcome = [w \in Workers |-> "none"]
    /\ cruns = 0
    /\ startHwm = [w \in Workers |-> NULL]
    /\ solo = [w \in Workers |-> FALSE]
    /\ yielded = [w \in Workers |-> {}]
    /\ startEmpty = [w \in Workers |-> FALSE]
    /\ fresh = FALSE
    /\ repeat = [w \in Workers |-> FALSE]
    /\ noNew = [w \in Workers |-> FALSE]

\* No analysis task in the broker, no request in progress.
InitAnalysis ==
    /\ aqueue = [t \in AnalysisTasks |-> 0]
    /\ asent = 0
    /\ anpc = [w \in Workers |-> "idle"]
    /\ anpost = [w \in Workers |-> NULL]
    /\ anretries = [w \in Workers |-> 0]
    /\ aout = [w \in Workers |-> "none"]
    /\ rqpc = [u \in Requests |-> "idle"]
    /\ rqpost = [u \in Requests |-> NULL]
    /\ rqres = [u \in Requests |-> "none"]

\* The days of the provider's posts: a post with a larger id is not older.
PostDays ==
    {f \in [ProviderPostIds -> Days] :
        \A i, j \in ProviderPostIds : i <= j => f[i] <= f[j]}

\* One post a day.
DailyPosts == [i \in ProviderPostIds |-> i]

\* An active channel whose posts at the provider are dated by days; no
\* dispatch requested yet.
InitDispatch(days) ==
    /\ collection_is_active = TRUE
    /\ provPosts = days
    /\ dqueue = << >>
    /\ dres = [req |-> NoRequest, answer |-> "none"]
    /\ dpc = "idle"
    /\ dreq = NoRequest
    /\ dkw = NoKwargs
    /\ dretries = 0
    /\ dstream = << >>
    /\ demitted = << >>
    /\ dout = "none"
    /\ dstop = "none"
    /\ dflood = 0
    /\ dcause = NoFlood
    /\ dstartAt = 0
    /\ dexecs = 0
    /\ drequests = 0

Init ==
    /\ InitAccounts
    /\ InitCollector(1)
    /\ InitChannelRow
    /\ InitPipeline
    /\ InitComments(0)
    /\ InitAnalysis
    /\ InitDispatch(DailyPosts)

\* Comment collection is followed from a new post and from a post that was
\* collected once when it had one comment.
InitCollected ==
    InitAccounts /\ InitCollector(1) /\ InitChannelRow /\ InitPipeline /\ InitAnalysis /\ InitDispatch(DailyPosts)
    /\ \E n \in {0, 1} : InitComments(n)

(***************************************************************************)
(* Next-state relations and specifications, one per component.             *)
(***************************************************************************)
NextAccounts ==
    \/ \E w \in Workers : AcquireSelect(w)
    \/ \E w \in Workers : AcquireNone(w)
    \/ \E w \in Workers : EndWithoutAccount(w)
    \/ \E w \in Workers : AcquireCommit(w)
    \/ \E w \in Workers : ReleaseAccount(w)
    \/ \E w \in Workers : MarkAsBanned(w)
    \/ \E a \in Accounts, flag \in BOOLEAN : AdminSetActive(a, flag)

SpecAccounts == Init /\ [][NextAccounts]_vars

NextPipeline ==
    \/ \E w \in Workers : PostRejected(w)
    \/ \E w \in Workers, c \in Channels, pl \in Payloads : PostSelect(w, c, pl)
    \/ \E w \in Workers : PostUpdateCommit(w)
    \/ \E w \in Workers : PostInsertFlush(w)
    \/ \E w \in Workers : PostInsertCommit(w)
    \/ \E w \in Workers : PostAbort(w)
    \/ \E r \in OutboxIds : AnalysisSaved(r)
    \/ \E p \in Publishers, S \in SUBSET OutboxIds : PubSelect(p, S)
    \/ \E p \in Publishers, r \in OutboxIds, ok \in BOOLEAN : PubSend(p, r, ok)
    \/ \E p \in Publishers : PubCommit(p)
    \/ \E p \in Publishers : PubCrash(p)
    \/ Age
    \/ CleanupOld

SpecPipeline == Init /\ [][NextPipeline]_vars

\* The outbox as two process-post units for one post leave it (insert
\* branch, then update branch with no analysis artifact yet): three rows.
InitPublishing ==
    /\ InitAccounts
    /\ InitCollector(1)
    /\ InitChannelRow
    /\ InitComments(0)
    /\ InitAnalysis
    /\ InitDispatch(DailyPosts)
    /\ posts = {[id |-> 1, channel_id |-> 1, telegram_id |-> 1, views |-> 0]}
    /\ post_analysis = {}
    /\ obLog = NewPostOutboxRows(1) \o UpdateOutboxRows(1)
    /\ outbox = 1..Len(obLog)
    /\ agedUpTo = 0
    /\ handed = [r \in OutboxIds |-> 0]
    /\ ppc = [w \in Workers |-> "idle"]
    /\ ppay = [w \in Workers |-> NoPayload]
    /\ pchan = [w \in Workers |-> 1]
    /\ pfound = [w \in Workers |-> NULL]
    /\ procDone = [k \in Channels \X Payloads |->
                      IF k = <<1, [telegram_id |-> 1, views |-> 0]>> THEN 2 ELSE 0]
    /\ rejected = 0
    /\ pretries = 0
    /\ pubpc = [p \in Publishers |-> "idle"]
    /\ pubPending = [p \in Publishers |-> {}]
    /\ pubFailed = [p \in Publishers |-> {}]
    /\ pubPublished = [p \in Publishers |-> {}]

\* The publisher and the cleanup alone, on the rows that are there.
NextPublishing ==
    \/ \E p \in Publishers, S \in SUBSET OutboxIds : PubSelect(p, S)
    \/ \E p \in Publishers, r \in OutboxIds, ok \in BOOLEAN : PubSend(p, r, ok)
    \/ \E p \in Publishers : PubCommit(p)
    \/ \E p \in Publishers : PubCrash(p)
    \/ Age
    \/ CleanupOld

\* The publishers with no crash and no database failure: every run that
\* selects rows reaches the end of its session block.
NextPublishers ==
    \/ \E p \in Publishers, S \in SUBSET OutboxIds : PubSelect(p, S)
    \/ \E p \in Publishers, r \in OutboxIds, ok \in BOOLEAN : PubSend(p, r, ok)
    \/ \E p \in Publishers : PubCommit(p)
    \/ Age
    \/ CleanupOld

SpecPublishers == InitPublishing /\ [][NextPublishers]_vars

\* The outbox as one process-post unit for a new post and
\* OUTBOX_BATCH_SIZE - 1 re-runs for the same post leave it, one row more
\* than a batch holds; no post is being processed.
BacklogRows ==
    [r \in 1..(OUTBOX_BATCH_SIZE + 1) |->
        IF r <= 2 THEN NewPostOutboxRows(1)[r] ELSE UpdateOutboxRows(1)[1]]

InitBacklog ==
    /\ InitAccounts
    /\ InitCollector(1)
    /\ InitChannelRow
    /\ InitComments(0)
    /\ InitAnalysis
    /\ InitDispatch(DailyPosts)
    /\ posts = {[id |-> 1, channel_id |-> 1, telegram_id |-> 1, views |-> 0]}
    /\ post_analysis = {}
    /\ obLog = BacklogRows
    /\ outbox = 1..Len(obLog)
    /\ agedUpTo = 0
    /\ handed = [r \in OutboxIds |-> 0]
    /\ ppc = [w \in Workers |-> "idle"]
    /\ ppay = [w \in Workers |-> NoPayload]
    /\ pchan = [w \in Workers |-> 1]
    /\ pfound = [w \in Workers |-> NULL]
    /\ procDone = [k \in Channels \X Payloads |->
                      IF k = <<1, [telegram_id |-> 1, views |-> 0]>>
                      THEN OUTBOX_BATCH_SIZE ELSE 0]
    /\ rejected = 0
    /\ pretries = 0
    /\ pubpc = [p \in Publishers |-> "idle"]
    /\ pubPending = [p \in Publishers |-> {}]
    /\ pubFailed = [p \in Publishers |-> {}]
    /\ pubPublished = [p \in Publishers |-> {}]

NextBacklog ==
    \/ \E p \in Publishers, S \in SUBSET OutboxIds : PubSelect(p, S)
    \/ \E p \in Publishers, r \in OutboxIds : PubSendBacklog(p, r)
    \/ \E p \in Publishers : PubCommit(p)
    \/ Age
    \/ CleanupOld

\* The scheduling the code gives (beat_schedule runs publish_outbox_tasks
\* every 10 seconds; a run goes through its loop to the end of its session
\* block): a publisher that can start a run starts one, with whatever rows
\* the SELECT returns, and a run that has started takes its next step.  No
\* schedule runs cleanup_old_outbox_tasks, and nothing orders the SELECT.
BacklogFairness ==
    \A p \in Publishers :
        /\ WF_vars(\E S \in SUBSET OutboxIds : PubSelect(p, S))
        /\ WF_vars(\/ \E r \in OutboxIds : PubSendBacklog(p, r)
                   \/ PubCommit(p))

SpecBacklogFair == InitBacklog /\ [][NextBacklog]_vars /\ BacklogFairness

\* The scheduling of the publisher (beat_schedule runs publish_outbox_tasks
\* every 10 seconds): a run that has started goes on until it commits or
\* fails; a row that stays in the table is selected again and again (the
\* SELECT has no ORDER BY, so this is an assumption on the database); and the
\* broker does not refuse the task of a row on every attempt.
PublisherStep(p) ==
    \/ \E r \in OutboxIds, ok \in BOOLEAN : PubSend(p, r, ok)
    \/ PubCommit(p)
    \/ PubCrash(p)

PublisherFairness ==
    /\ \A p \in Publishers : WF_vars(PublisherStep(p))
    /\ \A r \in OutboxIds :
          /\ SF_vars(\E p \in Publishers, S \in SUBSET OutboxIds :
                        r \in S /\ PubSelect(p, S))
          /\ SF_vars(\E p \in Publishers : PubSend(p, r, TRUE))

SpecPublishingFair ==
    InitPublishing /\ [][NextPublishing]_vars /\ PublisherFairness

NextComments ==
    \/ \E w \in Workers, rescan \in BOOLEAN : CommentLoad(w, rescan)
    \/ \E w \in Workers, keep \in SUBSET CommentIds : CommentFetch(w, keep)
    \/ \E w \in Workers : CommentYield(w)
    \/ \E w \in Workers : CommentFlushLast(w)
    \/ \E w \in Workers : CommentFinal(w)
    \/ \E w \in Workers : CommentFail(w)
    \/ ProviderAdd
    \/ \E c \in CommentIds : ProviderDelete(c)

SpecComments == InitCollected /\ [][NextComments]_vars

\* The pipeline after the first n posts of the channel were stored, each by
\* one process-post unit, with their outbox rows still in the table.
RECURSIVE RowsOfPosts(_)
RowsOfPosts(n) ==
    IF n = 0 THEN << >> ELSE RowsOfPosts(n - 1) \o NewPostOutboxRows(n)

PipelineWithPosts(n) ==
    /\ posts = {[id |-> i, channel_id |-> 1, telegram_id |-> i, views |-> 0] : i \in 1..n}
    /\ post_analysis = {}
    /\ obLog = RowsOfPosts(n)
    /\ outbox = 1..Len(obLog)
    /\ agedUpTo = 0
    /\ handed = [r \in OutboxIds |-> 0]
    /\ ppc = [w \in Workers |-> "idle"]
    /\ ppay = [w \in Workers |-> NoPayload]
    /\ pchan = [w \in Workers |-> 1]
    /\ pfound = [w \in Workers |-> NULL]
    /\ procDone = [k \in Channels \X Payloads |->
                      IF k[2].telegram_id <= n /\ k[2].views = 0 THEN 1 ELSE 0]
    /\ rejected = 0
    /\ pretries = 0
    /\ pubpc = [p \in Publishers |-> "idle"]
    /\ pubPending = [p \in Publishers |-> {}]
    /\ pubFailed = [p \in Publishers |-> {}]
    /\ pubPublished = [p \in Publishers |-> {}]

\* One stored post.
InitStoredPost ==
    /\ InitAccounts
    /\ InitCollector(1)
    /\ InitChannelRow
    /\ InitComments(0)
    /\ InitAnalysis
    /\ InitDispatch(DailyPosts)
    /\ PipelineWithPosts(1)

\* Analysis requests, dispatches of the analysis outbox row and analysis
\* units on the stored post (and requests for a post id that is not stored).
NextAnalysis ==
    \/ \E r \in OutboxIds : DispatchAnalysis(r)
    \/ \E u \in Requests, pid \in AnalysisPostIds : RequestCheck(u, pid)
    \/ \E u \in Requests : RequestSend(u)
    \/ \E w \in Workers, t \in AnalysisTasks : AnalysisStart(w, t)
    \/ \E w \in Workers, res \in {"valid", "invalid", "api_error"} :
          AnalysisLLM(w, res)
    \/ \E w \in Workers : AnalysisSave(w)
    \/ \E w \in Workers : AnalysisFail(w)

SpecAnalysis == InitStoredPost /\ [][NextAnalysis]_vars

\* The same without failures: the publisher hands the analysis row of the
\* post over once, every LLM call returns a well-formed result, and no
\* worker dies.
NextAnalysisNoFailure ==
    \/ \E r \in OutboxIds : DispatchAnalysisOnce(r)
    \/ \E u \in Requests, pid \in AnalysisPostIds : RequestCheck(u, pid)
    \/ \E u \in Requests : RequestSend(u)
    \/ \E w \in Workers, t \in AnalysisTasks : AnalysisStart(w, t)
    \/ \E w \in Workers : AnalysisLLM(w, "valid")
    \/ \E w \in Workers : AnalysisSave(w)

SpecAnalysisNoFailure == InitStoredPost /\ [][NextAnalysisNoFailure]_vars

\* Dispatch requests and dispatch units on a channel with no, one or two
\* stored posts, for every dating of the provider's posts.  The clock
\* stands still, so a retried dispatch is not started here.
InitChannel ==
    /\ InitAccounts
    /\ InitCollector(1)
    /\ InitChannelRow
    /\ InitComments(0)
    /\ InitAnalysis
    /\ \E days \in PostDays : InitDispatch(days)
    /\ \E n \in 0..2 : PipelineWithPosts(n)

NextDispatch ==
    \/ \E req \in DispatchRequests : DispatchRequest(req)
    \/ \E flag \in BOOLEAN : ChannelSetActive(flag)
    \/ \E flag \in BOOLEAN : UpdateChannelStatus(flag)
    \/ \E i \in 1..MaxQueued : DispatchStart(i)
    \/ \E ev \in {"ok", "no_access", "flood", "unavailable", "error"},
          n \in 1..MaxFloodWait : DispatchOpen(ev, n)
    \/ DispatchYield
    \/ \E n \in 0..MaxFloodWait : DispatchCut(n)
    \/ DispatchFinish

SpecDispatch == InitChannel /\ [][NextDispatch]_vars

\* One dispatch of the initial collection in the broker, its executions and
\* re-executions as the clock advances.
InitRetry ==
    /\ InitAccounts
    /\ InitCollector(1)
    /\ InitChannelRow
    /\ InitPipeline
    /\ InitComments(0)
    /\ InitAnalysis
    /\ collection_is_active = TRUE
    /\ provPosts = DailyPosts
    /\ dqueue = <<[kw |-> [NoKwargs EXCEPT !.limit = POST_FETCH_LIMIT], retries |-> 0,
                    eta |-> 0, cause |-> NoFlood,
                    req |-> [NoRequest EXCEPT !.mode = "initial"]]>>
    /\ dres = [req |-> [NoRequest EXCEPT !.mode = "initial"], answer |-> "202"]
    /\ dpc = "idle"
    /\ dreq = NoRequest
    /\ dkw = NoKwargs
    /\ dretries = 0
    /\ dstream = << >>
    /\ demitted = << >>
    /\ dout = "none"
    /\ dstop = "none"
    /\ dflood = 0
    /\ dcause = NoFlood
    /\ dstartAt = 0
    /\ dexecs = 0
    /\ drequests = 0

NextRetry ==
    \/ \E i \in 1..MaxQueued : DispatchStart(i)
    \/ \E ev \in {"ok", "no_access", "flood", "unavailable", "error"},
          n \in 1..MaxFloodWait : DispatchOpen(ev, n)
    \/ DispatchYield
    \/ \E n \in 0..MaxFloodWait : DispatchCut(n)
    \/ DispatchFinish
    \/ Tick

SpecRetry == InitRetry /\ [][NextRetry]_vars

\* The callers of the collector on one stored post (and on a post id that is
\* not stored), with the settings' session string being the one of either
\* account, while the administrator switches accounts on and off.
InitProvider ==
    /\ InitAccounts
    /\ \E a \in Accounts : InitCollector(a)
    /\ InitChannelRow
    /\ InitComments(0)
    /\ InitAnalysis
    /\ InitDispatch(DailyPosts)
    /\ PipelineWithPosts(1)

NextCollector ==
    \/ \E w \in Workers, u \in CollectorUnits, pid \in 1..MaxPostId : UnitStart(w, u, pid)
    \/ \E w \in Workers : GetServiceProvider(w)
    \/ \E w \in Workers, ev \in ConnectEvents : CollectorInitialize(w, ev)
    \/ \E w \in Workers, ev \in {"ok", "gone"} \cup ProviderErrors : CollectorCall(w, ev)
    \/ \E a \in Accounts, flag \in BOOLEAN : AdminSetActive(a, flag)

SpecCollector == InitProvider /\ [][NextCollector]_vars

\* The units on one stored post whose channel row may be deleted: a
\* process-post unit with a payload the schema rejects, the analysis tasks of
\* the post's outbox row, and the callers of the collector (with a provider
\* that answers every call).
NextTerminal ==
    \/ ChannelDelete
    \/ \E w \in Workers : PostRejected(w)
    \/ \E r \in OutboxIds : DispatchAnalysis(r)
    \/ \E w \in Workers, t \in AnalysisTasks : AnalysisStart(w, t)
    \/ \E w \in Workers, res \in {"valid", "invalid", "api_error"} :
          AnalysisLLM(w, res)
    \/ \E w \in Workers : AnalysisSave(w)
    \/ \E w \in Workers, u \in {"dispatch", "comments", "stats"},
          pid \in 1..MaxPostId : UnitStart(w, u, pid)
    \/ \E w \in Workers : CollectorInitialize(w, "ok")
    \/ \E w \in Workers : CollectorCall(w, "ok")

SpecTerminal == InitStoredPost /\ [][NextTerminal]_vars

(***************************************************************************)
(* Properties of the account pool (checked under SpecAccounts).            *)
(***************************************************************************)

\* C4: of any number of concurrent get_account_for_work calls, no two have
\* selected the same account row while neither has committed its
\* last_used_at update.
C4_NoDoubleSelect ==
    \A w, v \in Workers :
        (w # v /\ apc[w] = "selected" /\ apc[v] = "selected") => acct[w] # acct[v]

\* Two calls are between their SELECT and their COMMIT at the same time.
C4_Witness ==
    \E w, v \in Workers : w # v /\ apc[w] = "selected" /\ apc[v] = "selected"

\* C5 (as claimed): no two workers whose work periods overlap hold the same
\* account.  A work period runs from the return of get_account_for_work to
\* the end of the unit of work.
C5_NoSharedAccount ==
    \A w, v \in Workers :
        (w # v /\ apc[w] = "working" /\ apc[v] = "working") => acct[w] # acct[v]

\* C6: the account a get_account_for_work call has selected is active and not
\* banned at the moment of selection, and stays so until the call commits.
C6_SelectedIsEligible ==
    \A w \in Workers :
        apc[w] = "selected" =>
            /\ accounts[acct[w]].is_active
            /\ ~accounts[acct[w]].is_banned

\* A call has selected an account while a banned account that was used less
\* recently was passed over.
C6_Witness ==
    \E w \in Workers, a \in Accounts :
        /\ apc[w] = "selected"
        /\ accounts[a].is_banned
        /\ accounts[a].last_used_at < accounts[acct[w]].last_used_at

(***************************************************************************)
(* Properties of the process-post unit and the outbox (checked under       *)
(* SpecPipeline, the liveness ones under SpecPipelineFair).                *)
(***************************************************************************)

StoredPosts(c, t) == {p \in posts : p.channel_id = c /\ p.telegram_id = t}

\* The outbox rows ever written for a post, by task.
RowsFor(pid, task) ==
    {r \in 1..Len(obLog) : obLog[r].post_id = pid /\ obLog[r].task_name = task}

\* Finished units with a valid payload for one (channel, external id).
RunsForKey(c, t) ==
    SumDone({k \in DOMAIN procDone : k[1] = c /\ k[2].telegram_id = t})

\* No outbox row has been removed so far.
NothingDrained == outbox = 1..Len(obLog)

\* The unit has run exactly twice for the key, both times with payload pl.
RanTwice(c, pl) ==
    procDone[<<c, pl>>] = 2 /\ RunsForKey(c, pl.telegram_id) = 2

\* C1 (as claimed): after the unit has run twice with the same payload and
\* nothing has drained the outbox, there is exactly one post row for the
\* (channel, external id) and at most one analysis outbox entry for the post.
C1_AtMostOneAnalysisEntry ==
    \A c \in Channels, pl \in Payloads :
        (RanTwice(c, pl) /\ NothingDrained) =>
            /\ Cardinality(StoredPosts(c, pl.telegram_id)) = 1
            /\ \A p \in StoredPosts(c, pl.telegram_id) :
                  Cardinality(RowsFor(p.id, AnalyzeTask) \cap outbox) <= 1

\* C1 (amended): after the unit has run twice with the same payload there is
\* exactly one post row for the (channel, external id), exactly one
\* comment-collection outbox entry was written for the post, and one or two
\* analysis entries were written for it; a run adds an analysis entry for a
\* stored post only while the post has no analysis artifact.
C1_OnePostOneOrTwoAnalysisEntries ==
    /\ [](\A c \in Channels, pl \in Payloads :
            RanTwice(c, pl) =>
                /\ Cardinality(StoredPosts(c, pl.telegram_id)) = 1
                /\ \A p \in StoredPosts(c, pl.telegram_id) :
                      /\ Cardinality(RowsFor(p.id, CommentsTask)) = 1
                      /\ Cardinality(RowsFor(p.id, AnalyzeTask)) \in {1, 2})
    /\ [][\A p \in posts :
             RowsFor(p.id, AnalyzeTask)' # RowsFor(p.id, AnalyzeTask) =>
                 p.id \notin analyses]_vars

\* The unit has run twice with the same payload, nothing was drained, and two
\* analysis entries for the post are in the outbox.
C1_Witness ==
    \E c \in Channels, pl \in Payloads :
        /\ RanTwice(c, pl)
        /\ NothingDrained
        /\ \E p \in StoredPosts(c, pl.telegram_id) :
              Cardinality(RowsFor(p.id, AnalyzeTask) \cap outbox) = 2

\* C2 (as claimed): outside a running publisher transaction, an outbox row is
\* gone if and only if its task was handed to the queue.
C2_DeletedIffSent ==
    \A r \in 1..Len(obLog) :
        r \notin Locked => (r \notin outbox <=> handed[r] > 0)

\* C2 (amended): published_ids holds only rows whose task the queue accepted;
\* a row leaves the outbox only in the commit of the publisher run that sent
\* it successfully, or in a cleanup once it is older than the threshold (sent
\* or not); and a publisher run that ends removes either all the rows it sent
\* (commit) or none (crash or failed commit, after which they are sent again).
C2_RemovedBySenderOrCleanup ==
    /\ [](\A p \in Publishers : \A r \in pubPublished[p] : handed[r] > 0)
    /\ [][\A r \in outbox \ outbox' :
             \/ \E p \in Publishers : r \in pubPublished[p] /\ pubpc'[p] = "idle"
             \/ r <= agedUpTo /\ r \notin Locked]_vars
    /\ [][\A p \in Publishers :
             (pubpc[p] = "sending" /\ pubpc'[p] = "idle") =>
                 \/ outbox' = outbox \ pubPublished[p]
                 \/ outbox' = outbox]_vars

\* A row that is not old has left the outbox after its task was handed over,
\* and another row is still in the outbox although its task was handed over.
C2_Witness ==
    /\ \E r \in 1..Len(obLog) : r \notin outbox /\ handed[r] > 0 /\ r > agedUpTo
    /\ \E r \in outbox : handed[r] > 0 /\ r \notin Locked

C7_HwmOnlyMovesForward ==
    [][\A w \in Workers :
          (/\ cpc[w] = "final"
           /\ outcome'[w] = "completed"
           /\ \A v \in Workers : ~force_full_rescan[v]) =>
              /\ last_comment_telegram_id' >= last_comment_telegram_id
              /\ last_comment_telegram_id' >= startHwm[w]]_vars

\* C8 (as claimed): a run without rescan that starts after a run has
\* completed, with no other run in between or beside it and no new comment
\* at the provider since the completed run fetched, inserts no comment row.
C8_SecondRunInsertsNothing ==
    \A w \in Workers :
        (repeat[w] /\ ~force_full_rescan[w]) => total_comments_processed[w] = 0

C11_AtMostOneArtifact ==
    \A pid \in AnalysisPostIds :
        Cardinality({a \in post_analysis : a.post_id = pid}) <= 1

\* Two units analysed the same post at once; the second INSERT was refused.
C11_Witness ==
    /\ \E w \in Workers : aout[w] = "duplicate"
    /\ \E w \in Workers : aout[w] = "saved"
    /\ Cardinality(post_analysis) = 1

C13_PostAndOutboxRowsTogether ==
    /\ [](\A pid \in 1..MaxOutbox :
            IF \E p \in posts : p.id = pid
            THEN /\ Cardinality(RowsFor(pid, CommentsTask)) = 1
                 /\ RowsFor(pid, AnalyzeTask) # {}
            ELSE /\ RowsFor(pid, CommentsTask) = {}
                 /\ RowsFor(pid, AnalyzeTask) = {})
    /\ [][\A pid \in 1..MaxOutbox :
            ((\E p \in posts' : p.id = pid) /\ ~(\E p \in posts : p.id = pid)) =>
                obLog' = obLog \o <<[task_name |-> AnalyzeTask, post_id |-> pid],
                                    [task_name |-> CommentsTask, post_id |-> pid]>>]_vars

\* A unit failed and was rolled back, a later one stored the post with its
\* two entries.
C13_Witness ==
    /\ pretries > 0
    /\ \E p \in posts :
          /\ RowsFor(p.id, CommentsTask) # {}
          /\ RowsFor(p.id, AnalyzeTask) # {}

(***************************************************************************)
(* C14.  Two process-post units for the same (channel, external id) that   *)
(* run concurrently store exactly one post row; the unit whose INSERT is   *)
(* refused by the unique constraint ends normally: it stores nothing,      *)
(* writes no outbox entry and schedules no retry.                          *)
(***************************************************************************)
C14_LoserIsBenignDuplicate ==
    /\ [](\A c \in Channels, t \in 1..MaxTgId :
            /\ Cardinality(StoredPosts(c, t)) <= 1
            /\ (RunsForKey(c, t) = 2 /\ pretries = 0) =>
                   Cardinality(StoredPosts(c, t)) = 1)
    /\ [][\A w \in Workers :
            (ppc[w] = "new" /\ ppc'[w] = "idle" /\ procDone' # procDone) =>
                /\ StoredPosts(pchan[w], ppay[w].telegram_id) # {}
                /\ posts' = posts
                /\ obLog' = obLog
                /\ outbox' = outbox
                /\ pretries' = pretries]_vars

\* Two units finished without an error, and the second one wrote nothing:
\* it was refused by the unique constraint.
C14_Witness ==
    /\ \E c \in Channels, t \in 1..MaxTgId : RunsForKey(c, t) = 2
    /\ pretries = 0
    /\ Cardinality(posts) = 1
    /\ Len(obLog) = 2
    /\ post_analysis = {}

(***************************************************************************)
(* C15 (as claimed).  The comment-collection task of a post was handed to  *)
(* the queue twice and both executions completed, one after the other or   *)
(* overlapping: the stored comments and the high-water mark are as a       *)
(* single dispatch leaves them, that is, the mark is the largest stored    *)
(* comment id.                                                             *)
(***************************************************************************)
C15_SameAsSingleDispatch ==
    (/\ cruns = 2
     /\ \A w \in Workers :
           /\ cpc[w] = "idle"
           /\ ~force_full_rescan[w]
           /\ outcome[w] = "completed")
        => (comments # {} => last_comment_telegram_id = Max(comments))

\* The range and the limit a historical request asks for.
RangeFrom(req) == req.date_from
RangeTo(req) == IF req.date_to # NULL THEN req.date_to ELSE Today
LimitOf(req) == IF req.limit # NULL THEN req.limit ELSE POST_FETCH_LIMIT

\* The dispatch unit of a historical request has ended normally.
HistoricalDone ==
    /\ dpc = "idle"
    /\ dout = "completed"
    /\ dreq.mode = "historical"

(***************************************************************************)
(* C16 (as claimed).  A historical dispatch with date_from, date_to and    *)
(* limit L emits process-post units only for posts dated in the closed     *)
(* range [date_from, date_to] and at most L of them, and it keeps both     *)
(* boundary days: when it ended below the limit on a stream that was not   *)
(* cut, every post dated date_from or date_to was emitted.                 *)
(***************************************************************************)
C16_ClosedRangeKept ==
    HistoricalDone =>
        /\ \A k \in 1..Len(demitted) :
              provPosts[demitted[k]] \in RangeFrom(dreq)..RangeTo(dreq)
        /\ Len(demitted) <= LimitOf(dreq)
        /\ (dstop \in {"exhausted", "lower_bound"} /\ Len(demitted) < LimitOf(dreq)) =>
              \A i \in ProviderPostIds :
                  (/\ provPosts[i] \in {RangeFrom(dreq), RangeTo(dreq)}
                   /\ RangeFrom(dreq) <= RangeTo(dreq)) => i \in Ids(demitted)

C18_RateLimitReachesUnit ==
    (dpc = "idle" /\ dflood > 0) => (dstop = "raised" /\ dout \in {"retry", "failure"})

(***************************************************************************)
(* C19 (as claimed).  An execution of the dispatch unit that is the retry  *)
(* of a rate-limit failure with delay N does not start before N seconds    *)
(* have passed since that failure.                                         *)
(***************************************************************************)
C19_RetryWaitsForRateLimit ==
    dcause.seconds > 0 => dstartAt >= dcause.at + dcause.seconds

(***************************************************************************)
(* C20 (as claimed).  One enqueued dispatch unit is executed at most       *)
(* max_retries + 1 times, whatever the failures.                           *)
(***************************************************************************)
C20_RetriesBounded ==
    dexecs <= CELERY_MAX_RETRIES + 1

EligibleRows == {a \in Accounts : accounts[a].is_active /\ ~accounts[a].is_banned}

C28_RoundRobinByRecency ==
    /\ [][\A w \in Workers :
            (/\ apc[w] = "idle" /\ apc'[w] = "selected"
             /\ \A v \in Workers \ {w} : apc[v] # "selected") =>
                /\ acct'[w] \in EligibleRows
                /\ \A b \in EligibleRows :
                      accounts[acct'[w]].last_used_at <= accounts[b].last_used_at]_vars
    /\ [][\A w \in Workers :
            (/\ apc[w] = "selected" /\ apc'[w] = "working"
             /\ \A v \in Workers \ {w} : apc[v] # "selected") =>
                \A b \in Accounts \ {acct[w]} :
                    accounts'[acct[w]].last_used_at > accounts'[b].last_used_at]_vars
    /\ [](\A i, j \in 1..Len(rotation) :
            (i < j /\ j - i < Cardinality(EligibleRows)) => rotation[i] # rotation[j])

\* Two calls, one after the other, returned the two accounts of the pool.
C28_Witness ==
    /\ Len(rotation) = 2
    /\ rotation[1] # rotation[2]
    /\ Cardinality(EligibleRows) = 2

(***************************************************************************)
(* C29.  When the process-post unit commits for a post that is already     *)
(* stored, the post rows differ from before only in the mutable fields of  *)
(* that post, which now hold the payload's values (the model's views       *)
(* stands for views_count, forwards_count, reactions and text); one        *)
(* analysis row for the post is added to the outbox if and only if the     *)
(* post has no analysis artifact, and no comment-collection row; the       *)
(* post's keys, its comments, its high-water mark and the analysis         *)
(* artifacts are left as they were.                                        *)
(***************************************************************************)
C29_UpdateRefreshesOnly ==
    [][\A w \in Workers :
         (ppc[w] = "existing" /\ ppc'[w] = "idle" /\ procDone' # procDone) =>
            LET added == (Len(obLog) + 1)..Len(obLog') IN
              /\ posts' = {IF p.id = pfound[w]
                           THEN [id |-> p.id, channel_id |-> p.channel_id,
                                 telegram_id |-> p.telegram_id,
                                 views |-> ppay[w].views]
                           ELSE p : p \in posts}
              /\ SubSeq(obLog', 1, Len(obLog)) = obLog
              /\ outbox' = outbox \cup added
              /\ Cardinality(added) =
                    IF \E a \in post_analysis : a.post_id = pfound[w] THEN 0 ELSE 1
              /\ \A r \in added :
                    obLog'[r] = [task_name |-> AnalyzeTask, post_id |-> pfound[w]]
              /\ post_analysis' = post_analysis
              /\ comments' = comments
              /\ last_comment_telegram_id' = last_comment_telegram_id]_vars

\* A post that was inserted with views 0 was updated to views 1 by a second
\* unit, which added a second analysis row and no comment-collection row.
C29_Witness ==
    \E p \in posts :
        /\ p.views = 1
        /\ procDone[<<p.channel_id, [telegram_id |-> p.telegram_id, views |-> 0]>>] = 1
        /\ procDone[<<p.channel_id, [telegram_id |-> p.telegram_id, views |-> 1]>>] = 1
        /\ Cardinality(RowsFor(p.id, AnalyzeTask)) = 2
        /\ Cardinality(RowsFor(p.id, CommentsTask)) = 1

(***************************************************************************)
(* C30.  In a publisher run, a send that fails leaves its row in the       *)
(* outbox as it was and the run goes on: the rows not yet tried stay to be *)
(* tried and the rows already sent stay in published_ids.  The run deletes *)
(* only after every row of the batch was tried, and what it deletes is     *)
(* exactly the rows whose send succeeded; the rows whose send failed stay  *)
(* for the next run.                                                       *)
(***************************************************************************)
C30_FailedSendIsIsolated ==
    /\ [][\A p \in Publishers, r \in OutboxIds :
            (r \in pubFailed'[p] /\ r \notin pubFailed[p]) =>
                /\ r \in outbox'
                /\ obLog' = obLog
                /\ handed' = handed
                /\ pubpc'[p] = "sending"
                /\ pubPending'[p] = pubPending[p] \ {r}
                /\ pubPublished'[p] = pubPublished[p]]_vars
    /\ [][\A p \in Publishers :
            (pubpc[p] = "sending" /\ pubpc'[p] = "idle" /\ outbox' # outbox) =>
                /\ pubPending[p] = {}
                /\ outbox \ outbox' = pubPublished[p]
                /\ pubFailed[p] \subseteq outbox'
                /\ \A r \in pubPublished[p] : handed[r] > 0]_vars

\* A run has tried both rows of its batch: the send of one failed, the send
\* of the other succeeded.
C30_Witness ==
    \E p \in Publishers :
        /\ pubpc[p] = "sending"
        /\ pubPending[p] = {}
        /\ pubFailed[p] # {}
        /\ pubPublished[p] # {}

ProviderCallBy(w) ==
    \/ colcalls'[w] > colcalls[w]
    \/ colres'[w] # colres[w] /\ colres'[w].calls > colcalls[w]

(***************************************************************************)
(* C22 (as claimed).  When the provider reports the account deactivated or *)
(* unauthorized during an operation of the collector, the collector's      *)
(* account is marked banned in the pool when the caller sees the outcome,  *)
(* and a unit that called the operation is retried.                        *)
(***************************************************************************)
C22_BanMarkedThenRetried ==
    [][\A w \in Workers :
         (colres'[w] # colres[w] /\ colres'[w].ev \in {"deactivated", "unauthorized"}) =>
             /\ colres'[w].account \in marked'
             /\ accounts'[colres'[w].account].is_banned
             /\ (colres'[w].unit # "add_channel" => colres'[w].outcome = "retry")]_vars

(***************************************************************************)
(* C23 (as claimed).  A unit makes a provider call only while it holds an  *)
(* account that get_account_for_work returned to it, and that account is   *)
(* the collector's; a unit that reaches get_service_provider when no       *)
(* account is eligible ends as a retry without a provider call.            *)
(***************************************************************************)
C23_UnitRunsOnAcquiredCredential ==
    [][\A w \in Workers :
         /\ ProviderCallBy(w) =>
                (apc[w] = "working" /\ acct[w] = session_account)
         /\ (colpc[w] = "open" /\ colpc'[w] # "open" /\ EligibleRows = {}) =>
                (/\ colpc'[w] = "idle"
                 /\ colres'[w].outcome = "retry"
                 /\ colres'[w].calls = 0)]_vars

(***************************************************************************)
(* C25 (as claimed).  get_comments_for_post ends without an error and      *)
(* with nothing yielded when the post has no comment section, and every    *)
(* other error of the provider leaves it as an exception, so that the      *)
(* comment unit does not complete on a stream that an error ended.         *)
(***************************************************************************)
C25_CommentErrorsPropagate ==
    [][\A w \in Workers :
         (colres'[w] # colres[w] /\ colres'[w].op = "get_comments_for_post") =>
             /\ (colres'[w].ev = "msg_id_invalid" =>
                    (/\ colres'[w].exc = "none"
                     /\ colres'[w].got = "empty"
                     /\ colres'[w].outcome = "completed"))
             /\ (colres'[w].ev \in ProviderErrors \ {"msg_id_invalid"} =>
                    (/\ colres'[w].exc # "none"
                     /\ colres'[w].outcome # "completed"))]_vars

(***************************************************************************)
(* C24 (as claimed).  A dispatch unit that starts after the channel was    *)
(* deactivated through the API, or deleted, ends at once as "inactive":    *)
(* it makes no provider call, emits nothing and schedules no retry.        *)
(***************************************************************************)
C24_DeactivatedChannelIsSkipped ==
    [][(dexecs' = dexecs + 1 /\ (~patched_is_active \/ ~channel_exists)) =>
          /\ dpc' = "idle"
          /\ dout' = "inactive"
          /\ demitted' = << >>
          /\ Len(dqueue') = Len(dqueue) - 1]_vars

\* No post, comment, artifact or outbox row is written in the step.
NoRowWritten ==
    /\ posts' = posts
    /\ comments' = comments
    /\ post_analysis' = post_analysis
    /\ obLog' = obLog
    /\ outbox' = outbox

(***************************************************************************)
(* C26.  A unit that meets a validation or business-rule failure ends in   *)
(* that step, sends no retry message and writes no post, comment,          *)
(* artifact or outbox row: a process-post unit whose payload the schema    *)
(* rejects; an analysis unit whose post is missing or whose LLM result is  *)
(* malformed; a dispatch unit whose channel row is missing; a comment or   *)
(* stats unit whose post is missing.  A unit goes on to the LLM or to the  *)
(* provider only when its post or channel is there.                        *)
(***************************************************************************)
C26_FailuresAreTerminal ==
    /\ [][rejected' = rejected + 1 =>
            /\ NoRowWritten
            /\ ppc' = ppc
            /\ pretries' = pretries]_vars
    /\ [][\A w \in Workers :
            /\ (anpc[w] = "idle" /\ anpc'[w] = "checked") => PostExists(anpost'[w])
            /\ (anpc'[w] = "idle" /\ aout'[w] \in {"missing", "invalid"}
                  /\ <<anpc[w], aout[w]>> # <<anpc'[w], aout'[w]>>) =>
                   /\ NoRowWritten
                   /\ \A t \in AnalysisTasks : aqueue'[t] <= aqueue[t]]_vars
    /\ [][\A w \in Workers :
            (colstarted' = colstarted + 1
               /\ <<colpc[w], colres[w]>> # <<colpc'[w], colres'[w]>>) =>
                LET started == colpc'[w] = "open"
                    u == IF started THEN colunit'[w] ELSE colres'[w].unit
                    pid == IF started THEN colpost'[w] ELSE colres'[w].post
                    missing == \/ u = "dispatch" /\ ~channel_exists
                               \/ u \in {"comments", "stats"} /\ ~PostExists(pid)
                IN  missing =>
                      /\ ~started
                      /\ colres'[w].outcome = "missing"
                      /\ colres'[w].retries = 0
                      /\ colres'[w].calls = 0
                      /\ NoRowWritten]_vars

\* After the channel row was deleted: a rejected payload, an analysis unit
\* that found its post missing after another had dropped a malformed result,
\* a dispatch unit that found no channel and a comment unit that found no
\* post.
C26_Witness ==
    /\ ~channel_exists
    /\ rejected >= 1
    /\ aout = <<"missing", "invalid">>
    /\ colres[1].unit = "dispatch" /\ colres[1].outcome = "missing"
    /\ colres[2].unit = "comments" /\ colres[2].outcome = "missing"

(***************************************************************************)
(* C31  With several publishers running at once and no crash or database   *)
(* failure, every outbox row is handed to the task queue at most once: a   *)
(* row one publisher holds is in no other publisher's batch until it is    *)
(* deleted; and one run holds at most OUTBOX_BATCH_SIZE rows.              *)
(***************************************************************************)
C31_HandedOnceBatchBounded ==
    /\ \A r \in OutboxIds : handed[r] <= 1
    /\ \A p \in Publishers : Cardinality(HeldBy(p)) <= OUTBOX_BATCH_SIZE
    /\ \A p, q \in Publishers : p # q => HeldBy(p) \cap HeldBy(q) = {}

\* Two publishers hold batches at the same time, one of them a full batch,
\* and each of them has handed a row of its own batch to the queue.
C31_Witness ==
    \E p, q \in Publishers :
        /\ p # q
        /\ Cardinality(HeldBy(p)) = OUTBOX_BATCH_SIZE
        /\ pubPublished[p] # {}
        /\ pubPublished[q] # {}
        /\ \E r \in outbox \ HeldBy(p) : r \in HeldBy(q) /\ handed[r] = 1

(***************************************************************************)
(* C32  When a comment run without rescan completes, the high-water mark   *)
(* of the post becomes the maximum of the value stored before and the      *)
(* largest external id the stream yielded; a run that fails leaves the     *)
(* high-water mark as it is.                                               *)
(***************************************************************************)
C32_CompletedRunWritesMax ==
    [][\A w \in Workers :
          /\ (/\ cpc[w] = "final"
              /\ cpc'[w] = "idle"
              /\ outcome'[w] = "completed"
              /\ ~force_full_rescan[w])
                => last_comment_telegram_id' =
                      Max({last_comment_telegram_id} \cup yielded[w])
          /\ (/\ cpc[w] # "idle"
              /\ cpc'[w] = "idle"
              /\ outcome'[w] # "completed")
                => last_comment_telegram_id' = last_comment_telegram_id]_vars

(***************************************************************************)
(* C33  When an analysis unit that passed the existence check inserts its  *)
(* artifact for a post that has got one in the meantime (and the worker    *)
(* does not die in that step), the insert is refused: the unit ends as a   *)
(* duplicate, nothing is stored by it, no task is sent again; and no step  *)
(* ever removes or replaces a stored artifact.                             *)
(***************************************************************************)
C33_LoserOfRaceIsNoOp ==
    [][/\ \A w \in Workers :
             (/\ anpc[w] = "analyzed"
              /\ anpc'[w] = "idle"
              /\ aout'[w] # "failed"
              /\ \E a \in post_analysis : a.post_id = anpost[w])
                => /\ aout'[w] = "duplicate"
                   /\ post_analysis' = post_analysis
                   /\ aqueue' = aqueue
       /\ post_analysis \subseteq post_analysis']_vars

\* Both units held an LLM result for the same post; one has saved it, the
\* other ended as a duplicate, and the broker holds no task.
C33_Witness ==
    \E w, v \in Workers :
        /\ w # v
        /\ aout[w] = "saved"
        /\ aout[v] = "duplicate"
        /\ anpc[w] = "idle" /\ anpc[v] = "idle"
        /\ \A pid \in AnalysisPostIds :
              Cardinality({a \in post_analysis : a.post_id = pid}) <= 1
        /\ post_analysis # {}
        /\ \A t \in AnalysisTasks : aqueue[t] = 0

(***************************************************************************)
(* C34  Every task the publisher hands to the queue comes from an outbox   *)
(* row that is committed and whose post row was committed before: no row   *)
(* of the outbox, and no row handed over, names a post whose insert is     *)
(* still open or was rolled back.                                          *)
(***************************************************************************)
C34_HandedTaskHasCommittedPost ==
    /\ [](\A r \in 1..Len(obLog) :
             (r \in outbox \/ handed[r] > 0) =>
                 \E p \in posts : p.id = obLog[r].post_id)
    /\ [][\A r \in OutboxIds :
             handed'[r] > handed[r] =>
                 /\ r \in outbox
                 /\ \E p \in posts : p.id = obLog[r].post_id]_vars

\* After a unit was rolled back and a later one committed the post with its
\* rows, the publisher has handed over the analysis task and the
\* comment-collection task of the post.
C34_Witness ==
    /\ pretries > 0
    /\ \E r, q \in 1..Len(obLog) :
          /\ handed[r] > 0 /\ obLog[r].task_name = AnalyzeTask
          /\ handed[q] > 0 /\ obLog[q].task_name = CommentsTask
          /\ obLog[r].post_id = obLog[q].post_id
          /\ \E p \in posts : p.id = obLog[r].post_id

(***************************************************************************)
(* C35  request_analysis sends an analysis task only for a post that has   *)
(* no artifact, no analysis unit in progress and no analysis task waiting  *)
(* in the broker; and, without failures, the LLM is called at most once    *)
(* for a post: a call is made only for a post that has no artifact and for *)
(* which no other unit holds an LLM result (without failures every call    *)
(* ends in an artifact or in a result held by its unit).                   *)
(***************************************************************************)
C35_AnalysisCalledAtMostOnce ==
    [][/\ \A u \in Requests :
             (rqpc[u] = "checked" /\ rqres'[u] = "202") =>
                 /\ rqpost[u] \notin analyses
                 /\ \A w \in Workers : anpost[w] # rqpost[u]
                 /\ \A t \in AnalysisTasks :
                       t.post_id = rqpost[u] => aqueue[t] = 0
       /\ \A w \in Workers :
             (anpc[w] = "checked" /\ anpc'[w] = "analyzed") =>
                 /\ anpost[w] \notin analyses
                 /\ \A v \in Workers \ {w} :
                       ~(anpc[v] = "analyzed" /\ anpost[v] = anpost[w])]_vars

(***************************************************************************)
(* C36  The stats unit that gets no post from the provider (the post is    *)
(* gone upstream) ends normally: no exception, no retry, the post row and  *)
(* everything else stored unchanged.  The unit that gets the post changes  *)
(* the counters of that one post and nothing else: the other fields of the *)
(* post, the other posts, the comments, the high-water mark, the artifacts *)
(* and the outbox stay as they are.                                        *)
(***************************************************************************)
C36_StatsChangesCountersOnly ==
    [][\A w \in Workers :
          (colunit[w] = "stats" /\ colpc[w] = "ready" /\ colpc'[w] = "idle") =>
              /\ colres'[w].retries = 0
              /\ colres'[w].exc = "none"
              /\ UNCHANGED <<comments, last_comment_telegram_id, post_analysis,
                             outboxVars>>
              /\ IF colres'[w].ev = "gone"
                 THEN /\ colres'[w].outcome = "returned"
                      /\ posts' = posts
                 ELSE /\ colres'[w].ev = "ok" => colres'[w].outcome = "completed"
                      /\ {[p EXCEPT !.views = 0] : p \in posts'} =
                            {[p EXCEPT !.views = 0] : p \in posts}
                      /\ \A p \in posts :
                            p.id # colpost[w] => p \in posts']_vars

\* One stats unit found its post gone upstream and returned; another got
\* the post and has raised the stored view count of the post.
C36_Witness ==
    \E w, v \in Workers :
        /\ colres[w].unit = "stats" /\ colres[w].ev = "gone"
        /\ colres[w].outcome = "returned"
        /\ colres[v].unit = "stats" /\ colres[v].ev = "ok"
        /\ colres[v].outcome = "completed"
        /\ \E p \in posts : p.id = colres[v].post /\ p.views = MaxViews

(***************************************************************************)
(* C37  After a comment run without rescan has failed (with or without a   *)
(* committed batch), a later run of the unit without rescan, running alone *)
(* and not killed, is not ended by the uniqueness constraint on            *)
(* (post, external id): the comments the failed run stored do not make     *)
(* the retry fail.                                                         *)
(***************************************************************************)
C37_RetryNotStoppedByStoredComments ==
    [][\A w \in Workers :
          (/\ cpc[w] # "idle"
           /\ cpc'[w] = "idle"
           /\ ~force_full_rescan[w]
           /\ solo[w]
           /\ \E v \in Workers \ {w} :
                 outcome[v] = "failed" /\ ~force_full_rescan[v])
            => outcome'[w] # "integrity"]_vars

(***************************************************************************)
(* C38  The final write of a completed comment run that no other run       *)
(* overlapped does not move the high-water mark past a comment that is not *)
(* stored: every comment of the                                            *)
(* provider with an external id above the mark stored before the write and *)
(* at most the mark stored after it is among the stored comments.  (The    *)
(* provider's comments at the time of the write are those of the fetch     *)
(* without the ones deleted since, and newer ones lie above the new mark.) *)
(***************************************************************************)
C38_MarkNeverPassesUnsavedComment ==
    [][\A w \in Workers :
          (/\ cpc[w] = "final"
           /\ cpc'[w] = "idle"
           /\ outcome'[w] = "completed"
           /\ solo[w]) =>
              \A c \in provider :
                  (c > last_comment_telegram_id /\ c <= last_comment_telegram_id')
                      => c \in comments']_vars

(***************************************************************************)
(* C39  A call of get_account_for_work returns None only when no account   *)
(* is active and not banned, whatever row locks other calls hold at that   *)
(* moment.                                                                 *)
(***************************************************************************)
C39_NoneOnlyWithoutEligibleAccount ==
    [][\A w \in Workers :
          (apc[w] = "idle" /\ apc'[w] = "refused") =>
              ~ \E a \in Accounts : Eligible(a)]_vars

(***************************************************************************)
(* C40  An outbox row whose task the broker accepts whenever it is sent is *)
(* eventually handed to the queue (unless the cleanup has deleted it       *)
(* before), also when the tasks of other rows are refused on every         *)
(* attempt.                                                                *)
(***************************************************************************)
C40_AcceptedRowIsEventuallyHanded ==
    \A r \in OutboxIds :
        (r \in outbox /\ SendAccepted(r)) ~> (handed[r] > 0 \/ r \notin outbox)

====
